---- MODULE Spec2Model ----
(***************************************************************************)
(* Verification development for the DApp-KYC front end.                    *)
(*                                                                         *)
(* The module models the useKYCVerification hook (the orchestrating state  *)
(* machine), the wallet hook that feeds it, the iExec service functions it *)
(* calls, and the proof / commitment helpers, as one state machine.        *)
(*                                                                         *)
(* JavaScript runs the hook on one thread: a startVerification invocation  *)
(* runs until its next `await`, and only there can reset(), another        *)
(* startVerification, a wallet event or another run's continuation         *)
(* interleave.  Each action below is one such synchronous segment.         *)
(* setState calls with an updater function are applied in call order, so a *)
(* segment's updateState calls are folded left to right into `state`.      *)
(***************************************************************************)
EXTENDS Integers, Sequences, FiniteSets, Bags, TLC

VARIABLES
    state,      \* KYCVerificationState of the hook (useState)
    runs,       \* bag of the startVerification invocations suspended at an await
    cb,         \* what the memoized startVerification closure captured
    clock,      \* days elapsed since StartDate (wall clock)
    attempts,   \* startVerification calls since the last reset, plus those
                \* that were still suspended at that reset
    hist,       \* history: <<status, currentStep>> pairs of a sole, undisturbed attempt
    last,       \* history: how the most recent call settled
    call,       \* the library function called directly, with its arguments and result
    app_logs,   \* localStorage 'app_logs' as the directly called functions fill it
    verifications,  \* KYCVerifier contract: mapping(address => Verification)
    blockTimestamp, \* block.timestamp of the ledger, in seconds
    trustedEnclave, \* KYCVerifier contract: address public trustedEnclave
    wallet      \* useWallet: its React state, with the injected wallet it talks to

vars == <<state, runs, cb, clock, attempts, hist, last, call, app_logs,
          verifications, blockTimestamp, trustedEnclave, wallet>>

\* the storage of the KYCVerifier contract and the time of its chain
ledger == <<verifications, blockTimestamp, trustedEnclave>>

\* what the useKYCVerification hook leaves alone
lib == <<call, app_logs, ledger, wallet>>

---------------------------------------------------------------------------
(* Bounds of the model                                                     *)

MaxAttempts == 2    \* startVerification calls between two resets
MaxRuns == 2        \* startVerification invocations suspended at once
MaxClock == 1       \* days the wall clock may advance
MaxLoggedCalls == 2 \* service calls whose entries the stored log holds at once

---------------------------------------------------------------------------
(* JavaScript null                                                         *)

NULL == "null"              \* null in a string-valued slot
Null == [null |-> TRUE]     \* null in an object-valued slot
NoChainId == 0              \* null in the number-valued chainId slot

Falsy(s) == s = NULL \/ s = ""      \* `!s` for a string-or-null s

\* the call log of a run: the calls it made and what the remote ones returned
Call(fn, arg) == [ev |-> "call", fn |-> fn, arg |-> arg]
Return(fn, value) == [ev |-> "return", fn |-> fn, arg |-> [value |-> value]]
Threw(fn) == [ev |-> "throw", fn |-> fn, arg |-> [none |-> TRUE]]
NoArg == [none |-> TRUE]

---------------------------------------------------------------------------
(* Calendar.  A date is <<year, month, day>>; an instant is a UTC date     *)
(* plus the milliseconds elapsed since its UTC midnight.  Date strings of  *)
(* the form YYYY-MM-DD (what <input type="date"> yields) parse to UTC      *)
(* midnight of that date, while getFullYear / getMonth / getDate read the  *)
(* instant in the local time zone of the browser.                          *)

MsPerDay == 1000 * 60 * 60 * 24

StartDate == <<2024, 5, 31>>
NoonMs == 12 * 60 * 60 * 1000       \* time of day at which calls are made

IsLeap(y) == (y % 4 = 0 /\ y % 100 # 0) \/ y % 400 = 0

DaysInMonth(y, m) ==
    IF m = 2 THEN (IF IsLeap(y) THEN 29 ELSE 28)
    ELSE IF m \in {4, 6, 9, 11} THEN 30 ELSE 31

NextDay(d) ==
    IF d[3] < DaysInMonth(d[1], d[2]) THEN <<d[1], d[2], d[3] + 1>>
    ELSE IF d[2] < 12 THEN <<d[1], d[2] + 1, 1>>
    ELSE <<d[1] + 1, 1, 1>>

RECURSIVE AddDays(_, _)
AddDays(d, n) == IF n = 0 THEN d ELSE AddDays(NextDay(d), n - 1)

RECURSIVE DaysBeforeMonth(_, _)
DaysBeforeMonth(y, m) ==
    IF m = 1 THEN 0 ELSE DaysBeforeMonth(y, m - 1) + DaysInMonth(y, m - 1)

\* days since 0000-01-01 (proleptic Gregorian), the day part of getTime()
DayNumber(d) ==
    LET y == d[1] - 1
    IN  365 * d[1] + (y \div 4) - (y \div 100) + (y \div 400)
        + DaysBeforeMonth(d[1], d[2]) + d[3]

\* getTime() is kept as the pair <<day number, ms within the day>> (the
\* millisecond count itself exceeds the model checker's integers); the two
\* uses the code makes of it are computed exactly on the pair
GetTime(t) == <<DayNumber(t.date), t.ms>>

\* a > b on two getTime() values
Later(a, b) == a[1] > b[1] \/ (a[1] = b[1] /\ a[2] > b[2])

\* Math.floor((a - b) / (1000 * 60 * 60 * 24)) on two getTime() values
FloorDays(a, b) == (a[1] - b[1]) + ((a[2] - b[2]) \div MsPerDay)

ParseDate(d) == [date |-> d, ms |-> 0]          \* new Date('YYYY-MM-DD')

PrevDay(d) ==
    IF d[3] > 1 THEN <<d[1], d[2], d[3] - 1>>
    ELSE IF d[2] > 1 THEN <<d[1], d[2] - 1, DaysInMonth(d[1], d[2] - 1)>>
    ELSE <<d[1] - 1, 12, 31>>

MsPerHour == 60 * 60 * 1000

\* <<getFullYear(), getMonth() + 1, getDate()>> of instant t where local time
\* is UTC + tz hours
LocalDate(t, tz) ==
    LET ms == t.ms + tz * MsPerHour
    IN  IF ms < 0 THEN PrevDay(t.date)
        ELSE IF ms >= MsPerDay THEN NextDay(t.date)
        ELSE t.date

\* the browser of the hook's session runs on UTC
LocalOffsetHours == 0

\* new Date(), together with the offset of the local time zone
Now == [date |-> AddDays(StartDate, clock), ms |-> NoonMs, tz |-> LocalOffsetHours]

---------------------------------------------------------------------------
(* lib/utils/crypto.ts                                                     *)

\* SHA-256 as lowercase hex: always 64 characters wide.  The digest is kept
\* symbolic (its preimage), i.e. the hash is modelled as injective.
hashData(data) == [width |-> 64, of |-> data]

generateNullifierHash_NoSubject(documentHash, userAddress) ==
    hashData([documentHash |-> documentHash, suffix |-> "nullifier"])
generateNullifierHash(documentHash, userAddress) ==
    hashData([documentHash |-> documentHash, userAddress |-> userAddress,
              suffix |-> "nullifier"])

\* JSON.stringify of an object literal: the properties as <<key, value>>
\* pairs, in the order in which the literal lists them
JSONText(properties) == [json |-> properties]

createCommitment_WithName(kycData) ==
    hashData(JSONText(<< <<"documentType", kycData.documentType>>,
                         <<"documentNumber", kycData.documentNumber>>,
                         <<"fullName", kycData.fullName>>,
                         <<"dateOfBirth", kycData.dateOfBirth>>,
                         <<"nationality", kycData.nationality>> >>))
createCommitment(kycData) ==
    hashData(JSONText(<< <<"documentType", kycData.documentType>>,
                         <<"documentNumber", kycData.documentNumber>>,
                         <<"dateOfBirth", kycData.dateOfBirth>>,
                         <<"nationality", kycData.nationality>> >>))

Bit(b) == IF b THEN "1" ELSE "0"

\* generateAgeProof: the age is the difference of the calendar years; a
\* template string is kept as the list of its parts
generateAgeProof(dateOfBirth, minimumAge, today) ==
    LET birthDate == LocalDate(ParseDate(dateOfBirth), today.tz)
        local == LocalDate(today, today.tz)
        age == local[1] - birthDate[1]
        proofInput == <<dateOfBirth, ":", minimumAge, ":", age >= minimumAge>>
        proofHash == hashData([str |-> proofInput])
        nullifierHash == hashData([str |-> <<proofHash, ":nullifier">>])
    IN  [proof |-> proofHash,
         publicSignals |-> <<Bit(age >= minimumAge), ToString(minimumAge)>>,
         nullifierHash |-> nullifierHash]

isDocumentValid(expiryDate, today) ==
    Later(GetTime(ParseDate(expiryDate)), GetTime(today))

isAdult(dateOfBirth, minimumAge, today) ==
    LET birthDate == LocalDate(ParseDate(dateOfBirth), today.tz)
        local == LocalDate(today, today.tz)
        age == local[1] - birthDate[1]
        monthDiff == local[2] - birthDate[2]
    IN  IF monthDiff < 0 \/ (monthDiff = 0 /\ local[3] < birthDate[3])
        THEN age - 1 >= minimumAge
        ELSE age >= minimumAge

\* AES-GCM under a fresh random key: an opaque blob
encryptForTEE(kycData) == [ciphertextOf |-> kycData.documentNumber]

---------------------------------------------------------------------------
(* decentralized-iapp/src/verify.js: the function the enclave runs on the  *)
(* decrypted record; identity is what decrypt(encryptedData) returns       *)

verify(identity, today) ==
    LET birthDate == LocalDate(ParseDate(identity.dateOfBirth), today.tz)
        local == LocalDate(today, today.tz)
        age == local[1] - birthDate[1]
        expiry == ParseDate(identity.expiryDate)
    IN  IF age < 18 THEN FALSE
        ELSE IF Later(GetTime(today), GetTime(expiry)) THEN FALSE
        ELSE TRUE

---------------------------------------------------------------------------
(* components/kyc/kyc-form.tsx, validateForm: the entry it makes for the   *)
(* date of birth (NULL: none); an empty field is the empty tuple           *)

validateFormDateOfBirth(dateOfBirth, today) ==
    IF dateOfBirth = <<>> THEN "Please enter your date of birth"
    ELSE LET birthDate == LocalDate(ParseDate(dateOfBirth), today.tz)
             local == LocalDate(today, today.tz)
             age == local[1] - birthDate[1]
         IN  IF age < 18 THEN "You must be at least 18 years old" ELSE NULL

---------------------------------------------------------------------------
(* lib/services/zkproof.ts                                                 *)

generateAgeVerificationProof(dateOfBirth, minimumAge, userAddress, today) ==
    LET birthDate == LocalDate(ParseDate(dateOfBirth), today.tz)
        local == LocalDate(today, today.tz)
        age0 == local[1] - birthDate[1]
        monthDiff == local[2] - birthDate[2]
        age == IF monthDiff < 0 \/ (monthDiff = 0 /\ local[3] < birthDate[3])
               THEN age0 - 1 ELSE age0
        isAboveMinimumAge == age >= minimumAge
        proofHash == hashData([birthYear |-> birthDate[1],
                               birthMonth |-> birthDate[2],
                               birthDay |-> birthDate[3],
                               currentYear |-> local[1],
                               currentMonth |-> local[2],
                               currentDay |-> local[3],
                               minimumAge |-> minimumAge,
                               result |-> isAboveMinimumAge])
    IN  [proof |-> proofHash,
         publicSignals |-> <<Bit(isAboveMinimumAge), ToString(minimumAge),
                             ToString(local[1])>>,
         nullifierHash |-> generateNullifierHash(proofHash, userAddress)]

generateDocumentValidityProof(expiryDate, documentType, userAddress, today) ==
    LET expiry == ParseDate(expiryDate)
        isValid == Later(GetTime(expiry), GetTime(today))
        daysUntilExpiry == FloorDays(GetTime(expiry), GetTime(today))
        hasMinimumValidity == daysUntilExpiry > 30
        proofHash == hashData([documentType |-> documentType,
                               expiryYear |-> LocalDate(expiry, today.tz)[1],
                               expiryMonth |-> LocalDate(expiry, today.tz)[2],
                               isValid |-> isValid,
                               hasMinimumValidity |-> hasMinimumValidity])
    IN  [proof |-> proofHash,
         publicSignals |-> <<Bit(isValid), Bit(hasMinimumValidity)>>,
         nullifierHash |-> generateNullifierHash(proofHash, userAddress)]

\* lines 149-152: the nationality check of generateFullKYCProof
NationalityValid_Unrestricted(nationality, options) == TRUE
NationalityValid(nationality, options) ==
    IF "allowedNationalities" \in DOMAIN options
       /\ options.allowedNationalities # {}
    THEN nationality \in options.allowedNationalities
    ELSE TRUE

\* line 171: the overall validity of generateFullKYCProof
IsFullyValid_AgeAndDocOnly(isAgeValid, isDocValid, nationalityValid) ==
    isAgeValid /\ isDocValid
IsFullyValid(isAgeValid, isDocValid, nationalityValid) ==
    isAgeValid /\ isDocValid /\ nationalityValid

\* options is the record of the options given by the caller: minimumAge
\* defaults to 18, allowedNationalities (a set) may be absent
generateFullKYCProof(kycData, userAddress, options, today) ==
    LET minimumAge == IF "minimumAge" \in DOMAIN options
                      THEN options.minimumAge ELSE 18
        ageProof == generateAgeVerificationProof(kycData.dateOfBirth, minimumAge,
                                                 userAddress, today)
        docProof == generateDocumentValidityProof(kycData.expiryDate,
                                                  kycData.documentType,
                                                  userAddress, today)
        nationalityValid == NationalityValid(kycData.nationality, options)
        combinedProofHash == hashData([ageProof |-> ageProof.proof,
                                       docProof |-> docProof.proof,
                                       nationalityValid |-> nationalityValid,
                                       timestamp |-> GetTime(today)])
        isAgeValid == ageProof.publicSignals[1] = "1"
        isDocValid == docProof.publicSignals[1] = "1"
        isFullyValid == IsFullyValid(isAgeValid, isDocValid, nationalityValid)
    IN  [proof |-> combinedProofHash,
         publicSignals |-> <<Bit(isFullyValid), Bit(isAgeValid), Bit(isDocValid),
                             Bit(nationalityValid), ToString(minimumAge)>>,
         nullifierHash |-> generateNullifierHash(
                               [documentType |-> kycData.documentType,
                                documentHash |-> hashData([str |-> kycData.documentNumber])],
                               userAddress)]

verifyZKProof_AnyWidth(proof) ==
    LET isValidFormat == /\ proof.proof.width # 0
                         /\ Len(proof.publicSignals) > 0
    IN  IF ~isValidFormat
        THEN [isValid |-> FALSE, nullifierHash |-> proof.nullifierHash,
              publicOutputs |-> <<>>]
        ELSE [isValid |-> proof.publicSignals[1] = "1",
              nullifierHash |-> proof.nullifierHash,
              publicOutputs |-> proof.publicSignals]
verifyZKProof(proof) ==
    LET isValidFormat == /\ proof.proof.width # 0
                         /\ proof.proof.width = 64
                         /\ Len(proof.publicSignals) > 0
    IN  IF ~isValidFormat
        THEN [isValid |-> FALSE, nullifierHash |-> proof.nullifierHash,
              publicOutputs |-> <<>>]
        ELSE [isValid |-> proof.publicSignals[1] = "1",
              nullifierHash |-> proof.nullifierHash,
              publicOutputs |-> proof.publicSignals]

---------------------------------------------------------------------------
(* lib/types/kyc.ts: the two network profiles                              *)

ARBITRUM_SEPOLIA_CONFIG ==
    [chainId |-> 421614, name |-> "arbitrum-sepolia-testnet",
     workerpoolAddress |-> "0xB967057a21dc6A66A29721d96b8Aa7454B7c383F",
     dataProtectorSubgraph |-> "https://thegraph.arbitrum-sepolia-testnet.iex.ec/api/subgraphs/id/5YjRPLtjS6GH6bB4yY55Qg4HzwtRGQ8TaHtGf9UBWWd",
     isExperimental |-> TRUE]

ARBITRUM_MAINNET_CONFIG ==
    [chainId |-> 42161, name |-> "arbitrum-mainnet",
     workerpoolAddress |-> "0x2C06263943180Cc024dAFfeEe15612DB6e5fD248",
     dataProtectorSubgraph |-> "https://thegraph.arbitrum.iex.ec/api/subgraphs/id/Ep5zs5zVr4tDiVuQJepUu51e5eWYJpka624X4DMBxe3u",
     isExperimental |-> FALSE]

---------------------------------------------------------------------------
(* lib/services/iexec.ts                                                   *)

getNetworkConfig(chainId) ==
    IF chainId = 421614 THEN ARBITRUM_MAINNET_CONFIG ELSE ARBITRUM_SEPOLIA_CONFIG

IEXEC_KYC_APP_ADDRESS == "0x0000000000000000000000000000000000000000"

\* the required identity fields checked before anything is sent
MissingRequiredField_NameOptional(kycData) ==
    \/ Falsy(kycData.documentType) \/ Falsy(kycData.documentNumber)
    \/ kycData.dateOfBirth = <<>>
    \/ Falsy(kycData.nationality) \/ kycData.expiryDate = <<>>
MissingRequiredField(kycData) ==
    \/ Falsy(kycData.documentType) \/ Falsy(kycData.documentNumber)
    \/ Falsy(kycData.fullName) \/ kycData.dateOfBirth = <<>>
    \/ Falsy(kycData.nationality) \/ kycData.expiryDate = <<>>

\* the argument grantVerificationAccess hands to core.grantAccess
GrantAccessArgs_WrongHandle(protectedDataAddress, userAddress) ==
    [protectedData |-> userAddress,
     authorizedApp |-> IEXEC_KYC_APP_ADDRESS,
     authorizedUser |-> userAddress]
GrantAccessArgs(protectedDataAddress, userAddress) ==
    [protectedData |-> protectedDataAddress,
     authorizedApp |-> IEXEC_KYC_APP_ADDRESS,
     authorizedUser |-> userAddress]

\* the argument executeVerificationTask hands to core.processProtectedData
\* (isTestnet = true: the Sepolia workerpool)
ProcessArgs(protectedDataAddress) ==
    [protectedData |-> protectedDataAddress,
     app |-> IEXEC_KYC_APP_ADDRESS,
     workerpool |-> ARBITRUM_SEPOLIA_CONFIG.workerpoolAddress]

\* JSON.stringify / JSON.parse: the text of a value, kept as that value
JSONStringify(value) == [json |-> value]

\* lib/logger.ts: Logger.log builds the entry and always persists it
LogEntry(level, message, data, today) ==
    [level |-> level, message |-> message, data |-> data,
     timestamp |-> GetTime(today)]

\* persistLog: push, and drop the oldest entry beyond 100
persistLog(logs, entry) ==
    LET pushed == Append(logs, entry)
    IN  IF Len(pushed) > 100 THEN Tail(pushed) ELSE pushed

RECURSIVE PersistAll(_, _)
PersistAll(logs, entries) ==
    IF entries = <<>> THEN logs
    ELSE PersistAll(persistLog(logs, Head(entries)), Tail(entries))

\* protectKYCData, given how core.protectData settles if it is reached
\* (outcome: "rejected" or the address of the protected data).  The result
\* tells whether the function threw, what it returned, the backend calls it
\* made and the entries it logged, in order.
protectKYCData(kycData, userAddress, outcome, today) ==
    LET starting == LogEntry("info", "Starting KYC data protection",
                             [userAddress |-> userAddress,
                              documentType |-> kycData.documentType], today)
        failed(message) ==
            LogEntry("error", "KYC data protection failed",
                     [error |-> message, userAddress |-> userAddress,
                      documentType |-> kycData.documentType,
                      kycData |-> JSONStringify(kycData)], today)
        documentHash == hashData([str |-> kycData.documentNumber])
        nameHash == hashData([lowercase |-> kycData.fullName])
        dataToProtect == [type |-> "kyc", user |-> userAddress,
                          doc |-> kycData.documentType]
        hashing ==
            << LogEntry("debug", "Generating document hash",
                        [documentNumber |-> kycData.documentNumber], today),
               LogEntry("debug", "Document hash generated",
                        [documentHash |-> [first10 |-> documentHash]], today),
               LogEntry("debug", "Generating name hash",
                        [fullName |-> kycData.fullName], today),
               LogEntry("debug", "Name hash generated",
                        [nameHash |-> [first10 |-> nameHash]], today) >>
        sending ==
            << LogEntry("debug", "Calling dataProtector.core.protectData",
                        [dataKeys |-> DOMAIN dataToProtect,
                         dataValues |-> dataToProtect], today),
               LogEntry("debug", "Data to protect JSON",
                        [jsonData |-> JSONStringify(dataToProtect)], today),
               LogEntry("debug", "Validated data for iExec",
                        [validatedData |-> dataToProtect], today) >>
        sent == <<Call("core.protectData", [data |-> dataToProtect])>>
    IN  IF MissingRequiredField(kycData)
        THEN [threw |-> TRUE, message |-> "Missing required KYC data fields",
              core |-> <<>>,
              logs |-> <<starting, failed("Missing required KYC data fields")>>]
        ELSE IF Falsy(userAddress)
        THEN [threw |-> TRUE, message |-> "Invalid data for field user",
              core |-> <<>>,
              logs |-> <<starting>> \o hashing
                       \o <<failed("Invalid data for field user")>>]
        ELSE IF outcome = "rejected"
        THEN [threw |-> TRUE, message |-> "protectData failed",
              core |-> sent,
              logs |-> <<starting>> \o hashing \o sending
                       \o <<failed("protectData failed")>>]
        ELSE [threw |-> FALSE,
              value |-> [address |-> outcome,
                         dataHash |-> createCommitment(kycData),
                         timestamp |-> GetTime(today)],
              core |-> sent,
              logs |-> <<starting>> \o hashing \o sending
                       \o <<LogEntry("info", "KYC data protection completed",
                                     [protectedDataAddress |-> outcome], today)>>]

\* how core.grantAccess can settle
GrantOutcomes == {"granted", "denied", "transport"}

\* grantVerificationAccess, given how core.grantAccess settles: the backend
\* refuses by rejecting with a denial, the transport fails by rejecting with
\* a network error; the catch block takes both
grantVerificationAccess(protectedDataAddress, userAddress, outcome, today) ==
    LET sent == <<Call("core.grantAccess",
                       GrantAccessArgs(protectedDataAddress, userAddress))>>
    IN  IF outcome = "granted"
        THEN [threw |-> FALSE, value |-> TRUE, core |-> sent,
              logs |-> <<LogEntry("info", "Access granted for KYC verification",
                                  [protectedData |-> protectedDataAddress,
                                   app |-> IEXEC_KYC_APP_ADDRESS,
                                   user |-> userAddress], today)>>]
        ELSE [threw |-> FALSE, value |-> FALSE, core |-> sent,
              logs |-> <<LogEntry("error", "Failed to grant access",
                                  [error |-> outcome,
                                   protectedData |-> protectedDataAddress,
                                   app |-> IEXEC_KYC_APP_ADDRESS,
                                   user |-> userAddress], today)>>]

\* String.prototype.toLowerCase on a string given as the sequence of its
\* characters (the letters that occur in a hexadecimal address)
LowerCaseOf(c) ==
    CASE c = "A" -> "a" [] c = "B" -> "b" [] c = "C" -> "c"
      [] c = "D" -> "d" [] c = "E" -> "e" [] c = "F" -> "f"
      [] c = "X" -> "x" [] OTHER -> c
toLowerCase(str) == [i \in 1..Len(str) |-> LowerCaseOf(str[i])]

\* how the POST to the subgraph can settle: fetch rejects, or the response
\* lists the verifications recorded for the address
FetchResponses ==
    { [settled |-> "rejected"],
      [settled |-> "resolved", verifications |-> <<>>],
      [settled |-> "resolved", verifications |-> <<[isVerified |-> TRUE]>>],
      [settled |-> "resolved", verifications |-> <<[isVerified |-> FALSE]>>] }

\* fetchVerificationStatus: the request it sends, what it returns (Null
\* for `null`) and the entries it logs
fetchVerificationStatus(userAddress, isTestnet, response, today) ==
    LET networkConfig == IF isTestnet THEN ARBITRUM_SEPOLIA_CONFIG
                         ELSE ARBITRUM_MAINNET_CONFIG
        request == [url |-> networkConfig.dataProtectorSubgraph,
                    method |-> "POST",
                    body |-> JSONStringify(
                        [query |-> "GetVerificationStatus",
                         variables |-> [address |-> toLowerCase(userAddress)]])]
    IN  IF response.settled = "rejected"
        THEN [request |-> request, value |-> Null,
              logs |-> <<LogEntry("error", "Failed to fetch verification status",
                                  [error |-> "fetch failed",
                                   userAddress |-> userAddress,
                                   subgraph |-> networkConfig.dataProtectorSubgraph],
                                  today)>>]
        ELSE IF Len(response.verifications) > 0
        THEN [request |-> request,
              value |-> [boolean |-> response.verifications[1].isVerified],
              logs |-> <<>>]
        ELSE [request |-> request, value |-> Null, logs |-> <<>>]

simulateVerification(kycData, userAddress, today) ==
    LET isValidDocument == isDocumentValid(kycData.expiryDate, today)
        isUserAdult == isAdult(kycData.dateOfBirth, 18, today)
        isNotSanctioned == TRUE
        isValid == isValidDocument /\ isUserAdult /\ isNotSanctioned
        proofHash == hashData([userAddress |-> userAddress,
                               documentType |-> kycData.documentType,
                               isValid |-> isValid,
                               now |-> GetTime(today)])
    IN  [isValid |-> isValid,
         timestamp |-> GetTime(today),
         proofHash |-> proofHash,
         enclaveSignature |-> hashData([proofHash |-> proofHash,
                                        suffix |-> "enclave:signature"]),
         attributes |-> [isAdult |-> isUserAdult,
                         isNotExpired |-> isValidDocument,
                         isNotSanctioned |-> isNotSanctioned]]

---------------------------------------------------------------------------
(* The environment: what the user can type, what the page can pass to the  *)
(* hook and what the collaborators (wallet, confidential backend, ledger   *)
(* stub) can answer.                                                       *)

Addresses == {"0xabc"}
Handles == {"0xpd1", "0xpd2"}           \* addresses core.protectData may return
TxHashes == {"0xtx1"}                   \* generateMockTransactionHash outputs

\* the addresses the ledger is asked about, and the slot of the mapping for
\* an address nothing was stored for (Solidity's zero value)
LedgerUsers == {"0xabc", "0xdef"}
NoVerification ==
    [isVerified |-> FALSE, verificationTimestamp |-> 0,
     proofHash |-> [width |-> 64, of |-> [zero |-> TRUE]], expiryTimestamp |-> 0]

\* block.timestamp when the model starts: 2024-06-01T12:00:00Z
GenesisTime == 1717243200

\* the deployer of the KYCVerifier contract (Ownable(msg.sender)), another
\* account, and the enclave addresses the owner can designate
ContractOwner == "0xowner"
Senders == {ContractOwner, "0xmallory"}
Enclaves == {"0xenclave", "0xenclave2"}

\* the (userAddress, provider, chainId) arguments of the hook: no wallet,
\* a connected wallet on either network, an account without a provider
HookProps ==
    {[userAddress |-> NULL, provider |-> NULL, chainId |-> NoChainId]}
    \cup {[userAddress |-> a, provider |-> "ethereum", chainId |-> c] :
             a \in Addresses, c \in {421614, 42161}}
    \cup {[userAddress |-> a, provider |-> NULL, chainId |-> NoChainId] :
             a \in Addresses}

KYCGood == [documentType |-> "passport", documentNumber |-> "P1234567",
            fullName |-> "Ada Lovelace", dateOfBirth |-> <<2000, 1, 1>>,
            nationality |-> "Canada", expiryDate |-> <<2026, 6, 1>>]
KYCMinor == [KYCGood EXCEPT !.dateOfBirth = <<2010, 3, 15>>]
KYCExpiring == [KYCGood EXCEPT !.expiryDate = <<2024, 6, 1>>]
KYCNoName == [KYCGood EXCEPT !.fullName = ""]

KYCInputs == {KYCGood, KYCMinor, KYCExpiring, KYCNoName}

\* an attestation as the backend's result string carries it
Attestation(valid) ==
    [isValid |-> valid, timestamp |-> 0,
     proofHash |-> hashData([task |-> "tee"]),
     enclaveSignature |-> hashData([sig |-> "enclave"]),
     attributes |-> [isAdult |-> valid, isNotExpired |-> TRUE,
                     isNotSanctioned |-> TRUE]]

\* outcomes of core.processProtectedData: a rejection, or a result string,
\* which is JSON text of some value or not JSON at all
TaskOutcomes ==
    { [settled |-> "rejected"],
      [settled |-> "resolved", json |-> FALSE],
      [settled |-> "resolved", json |-> TRUE, value |-> Attestation(TRUE)],
      [settled |-> "resolved", json |-> TRUE, value |-> Attestation(FALSE)],
      [settled |-> "resolved", json |-> TRUE,
       value |-> [overallStatus |-> "ALL_VERIFIED"]] }

\* `!x.isValid` on a parsed value: a missing property reads as undefined
IsValidOf(value) == IF "isValid" \in DOMAIN value THEN value.isValid ELSE FALSE

---------------------------------------------------------------------------
(* hooks/use-wallet.ts: the state of the wallet hook                       *)

ARBITRUM_SEPOLIA_CHAIN_ID == 421614
ARBITRUM_MAINNET_CHAIN_ID == 42161

\* the accounts and networks the injected wallet (window.ethereum) can be on
WalletAccounts == {"0xabc", "0xdef"}
WalletChains == {ARBITRUM_SEPOLIA_CHAIN_ID, ARBITRUM_MAINNET_CHAIN_ID, 1}

\* useState<WalletState> as the hook creates it and as disconnect() sets it
DisconnectedWallet ==
    [isConnected |-> FALSE, address |-> NULL, chainId |-> NoChainId,
     isCorrectNetwork |-> FALSE, provider |-> NULL]

IsCorrectNetwork(chainIdNum) ==
    chainIdNum = ARBITRUM_SEPOLIA_CHAIN_ID \/ chainIdNum = ARBITRUM_MAINNET_CHAIN_ID

\* the state connect() and checkConnection() set from the two answers of
\* the wallet
ConnectedWallet(accounts, chainIdNum) ==
    [isConnected |-> TRUE, address |-> accounts[1], chainId |-> chainIdNum,
     isCorrectNetwork |-> IsCorrectNetwork(chainIdNum), provider |-> "ethereum"]

\* setWalletState(prev => ({ ...prev, address: accounts[0] })), or
\* disconnect() for an empty list
handleAccountsChanged(prev, accounts) ==
    IF Len(accounts) = 0 THEN DisconnectedWallet
    ELSE [prev EXCEPT !.address = accounts[1]]

handleChainChanged(prev, chainIdNum) ==
    [prev EXCEPT !.chainId = chainIdNum,
                 !.isCorrectNetwork = IsCorrectNetwork(chainIdNum)]

\* the hook before its effect has run, in a browser whose wallet is locked
\* (no account exposed) and on Arbitrum One
InitialWallet ==
    [walletState |-> DisconnectedWallet, error |-> NULL, mounted |-> FALSE,
     ethereum |-> [accounts |-> <<>>, chainId |-> ARBITRUM_MAINNET_CHAIN_ID]]

---------------------------------------------------------------------------
(* hooks/use-kyc-verification.ts                                           *)

VERIFICATION_STEPS ==
    <<"Connect Wallet", "Submit Identity", "Encrypt Data", "Generate ZK Proof",
      "TEE Verification", "Submit On-Chain", "Complete">>

InitialState ==
    [status |-> "idle", currentStep |-> 0,
     totalSteps |-> Len(VERIFICATION_STEPS),
     protectedData |-> Null, zkProof |-> Null, verificationResult |-> Null,
     transactionHash |-> NULL, error |-> NULL]

\* setState(prev => ({ ...prev, ...updates }))
updateState(prev, updates) ==
    [k \in DOMAIN prev |-> IF k \in DOMAIN updates THEN updates[k] ELSE prev[k]]

\* the state reset() installs
ResetState ==
    [status |-> "idle", currentStep |-> 0,
     totalSteps |-> Len(VERIFICATION_STEPS),
     protectedData |-> Null, zkProof |-> Null, verificationResult |-> Null,
     transactionHash |-> NULL, error |-> NULL]

\* `if (!userAddress)`
NoSubject_Never(userAddress) == FALSE
NoSubject(userAddress) == Falsy(userAddress)

\* the updates of the successive segments of startVerification
UnboundUpdates ==
    [error |-> "Please connect your wallet first", status |-> "failed"]
EncryptingUpdates == [status |-> "encrypting", currentStep |-> 2]
ComputingUpdates == [status |-> "computing", currentStep |-> 3]
VerifyingUpdates == [status |-> "verifying", currentStep |-> 4]
SubmittingUpdates_Stuck == [status |-> "submitting", currentStep |-> 4]
SubmittingUpdates == [status |-> "submitting", currentStep |-> 5]
CompletedUpdates(txHash) ==
    [transactionHash |-> txHash, status |-> "completed", currentStep |-> 6]
ZkFailedUpdates_NotFailed ==
    [error |-> "ZK proof verification failed. Please check your information."]
ZkFailedUpdates ==
    [error |-> "ZK proof verification failed. Please check your information.",
     status |-> "failed"]
AttestationFailedUpdates_Dropped(verificationResult) ==
    [error |-> "Identity verification failed. Please ensure your documents are valid.",
     status |-> "failed"]
AttestationFailedUpdates(verificationResult) ==
    [error |-> "Identity verification failed. Please ensure your documents are valid.",
     status |-> "failed", verificationResult |-> verificationResult]
CatchUpdates(message) == [error |-> message, status |-> "failed"]

NewRun(kycData) ==
    [pc |-> "encrypting", kycData |-> kycData,
     userAddress |-> cb.userAddress, provider |-> cb.provider,
     chainId |-> cb.chainId,
     address |-> NULL,          \* protectedKYCData.address once protected
     calls |-> <<>>]

InFlight == BagToSet(runs)
NoRuns == runs = EmptyBag
Without(r) == runs (-) SetToBag({r})
With(b, r) == b (+) SetToBag({r})

NoCall == [fn |-> "none"]

NoLast == [kind |-> "none", cause |-> "", step |-> 0, clean |-> FALSE, calls |-> <<>>]

\* history of a sole attempt: extended while it is being tracked
Track(s) ==
    IF hist = <<>> THEN <<>>
    ELSE IF hist[Len(hist)] = <<s.status, s.currentStep>> THEN hist
    ELSE Append(hist, <<s.status, s.currentStep>>)

\* run r goes on to its next await, having made the given calls; address is
\* its protectedKYCData.address from then on
AdvanceWith(r, pc, address, calls, s) ==
    /\ runs' = With(Without(r), [r EXCEPT !.pc = pc, !.address = address,
                                          !.calls = r.calls \o calls])
    /\ state' = s
    /\ hist' = Track(s)
    /\ UNCHANGED <<cb, clock, attempts, last, lib>>

Advance(r, pc, calls, s) == AdvanceWith(r, pc, r.address, calls, s)

\* run r returns
Settle(r, calls, kind, cause, step, s) ==
    /\ runs' = Without(r)
    /\ state' = s
    /\ hist' = Track(s)
    /\ last' = [kind |-> kind, cause |-> cause, step |-> step,
                clean |-> hist # <<>>, calls |-> r.calls \o calls]
    /\ UNCHANGED <<cb, clock, attempts, lib>>

\* the catch block
Throw(r, calls, cause, step, message, s) ==
    Settle(r, calls, "failed", cause, step, updateState(s, CatchUpdates(message)))

\* the component is rendered with a userAddress other than the one of the
\* previous render: useCallback(..., [userAddress]) rebuilds the closure of
\* startVerification, which captures the arguments of this render
Render(props) ==
    /\ props.userAddress # cb.userAddress
    /\ cb' = props
    /\ UNCHANGED <<state, runs, clock, attempts, hist, last, lib>>

reset ==
    /\ state' = ResetState
    /\ hist' = IF NoRuns THEN Track(ResetState) ELSE <<>>
    /\ last' = [kind |-> "reset", cause |-> "", step |-> 0,
                clean |-> (NoRuns /\ last.clean /\ last.kind = "completed"),
                calls |-> <<>>]
    /\ attempts' = BagCardinality(runs)
    /\ UNCHANGED <<runs, cb, clock, lib>>

startVerification(kycData) ==
    /\ attempts < MaxAttempts
    /\ attempts' = attempts + 1
    /\ IF NoSubject(cb.userAddress)
       THEN /\ state' = updateState(state, UnboundUpdates)
            /\ hist' = <<>>
            /\ last' = [kind |-> "failed", cause |-> "unbound", step |-> 0,
                        clean |-> (NoRuns /\ state = InitialState),
                        calls |-> <<>>]
            /\ UNCHANGED <<runs, cb, clock, lib>>
       ELSE /\ BagCardinality(runs) < MaxRuns
            /\ state' = updateState(state, EncryptingUpdates)
            /\ runs' = With(runs, NewRun(kycData))
            /\ hist' = IF NoRuns /\ state = InitialState
                       THEN << <<state.status, state.currentStep>>,
                               <<state'.status, state'.currentStep>> >>
                       ELSE <<>>
            /\ last' = NoLast
            /\ UNCHANGED <<cb, clock, lib>>

\* lines 82-97: the timer, encryptForTEE, createCommitment
ContEncrypting(r, cryptoOk) ==
    /\ r.pc = "encrypting"
    /\ LET protectedData == [address |-> r.userAddress,
                             dataHash |-> createCommitment(r.kycData),
                             timestamp |-> GetTime(Now),
                             encryptedData |-> encryptForTEE(r.kycData)]
       IN  IF cryptoOk
           THEN Advance(r, "computing",
                        <<Call("encryptForTEE", NoArg), Call("createCommitment", NoArg)>>,
                        updateState(updateState(state, [protectedData |-> protectedData]),
                                    ComputingUpdates))
           ELSE Throw(r, <<>>, "crypto", 2, "crypto.subtle is not available", state)

\* lines 98-135 and 171-174: the timer, generateFullKYCProof, verifyZKProof,
\* then the choice of the verifying strategy and the network check
ContComputing(r) ==
    /\ r.pc = "computing"
    /\ LET zkProof == generateFullKYCProof(r.kycData, r.userAddress,
                                           [minimumAge |-> 18], Now)
           zkVerification == verifyZKProof(zkProof)
           s == updateState(updateState(state, [zkProof |-> zkProof]),
                            VerifyingUpdates)
           made == <<Call("generateFullKYCProof", NoArg), Call("verifyZKProof", NoArg)>>
       IN  IF ~zkVerification.isValid
           THEN Settle(r, made, "failed", "zkInvalid", 3,
                       updateState(state, ZkFailedUpdates))
           ELSE IF r.provider # NULL
           THEN IF r.chainId # 421614
                THEN Throw(r, made, "chain", 4,
                           "Please switch to Arbitrum Sepolia testnet", s)
                ELSE Advance(r, "connect",
                             made \o <<Call("initializeDataProtector", NoArg)>>, s)
           ELSE Advance(r, "simulate",
                        made \o <<Call("simulateVerification", NoArg)>>, s)

\* lines 137-156: the provider connection test and initializeDataProtector,
\* then protectKYCData up to its call of core.protectData
ContConnect(r, outcome) ==
    /\ r.pc = "connect"
    /\ IF outcome = "providerError"
       THEN Throw(r, <<>>, "provider", 4,
                  "Wallet connection is not working properly. Please reconnect your wallet.",
                  state)
       ELSE IF outcome = NULL
       THEN Throw(r, <<>>, "init", 4, "Failed to initialize iExec DataProtector", state)
       ELSE LET entered == protectKYCData(r.kycData, r.userAddress, "rejected", Now)
            IN  IF entered.core = <<>>
                THEN Throw(r, <<Call("protectKYCData", NoArg)>>, "validation", 4,
                           entered.message, state)
                ELSE Advance(r, "protect",
                             <<Call("protectKYCData", NoArg)>> \o entered.core,
                             state)

\* the rest of protectKYCData and grantVerificationAccess up to core.grantAccess
ContProtect(r, result) ==
    /\ r.pc = "protect"
    /\ IF result = "rejected"
       THEN Throw(r, <<Threw("core.protectData")>>, "protect", 4,
                  "protectData failed", state)
       ELSE AdvanceWith(r, "grant", result,
                        <<Return("core.protectData", result),
                          Call("core.grantAccess",
                               GrantAccessArgs(result, r.userAddress))>>,
                        state)

\* the rest of grantVerificationAccess, lines 161-167, and
\* executeVerificationTask up to core.processProtectedData
ContGrant(r, outcome) ==
    /\ r.pc = "grant"
    /\ LET accessGranted ==
               grantVerificationAccess(r.address, r.userAddress, outcome, Now).value
       IN  IF ~accessGranted
           THEN Throw(r, <<Return("grantVerificationAccess", FALSE)>>,
                      "grantDenied", 4,
                      "Failed to grant access to verification app", state)
           ELSE Advance(r, "execute",
                        <<Return("grantVerificationAccess", TRUE),
                          Call("core.processProtectedData", ProcessArgs(r.address))>>,
                        state)

\* lines 177-189: what startVerification does with an attestation
AfterAttestation(r, verificationResult) ==
    IF ~IsValidOf(verificationResult)
    THEN Settle(r, <<>>, "failed", "attestationInvalid", 4,
                updateState(state, AttestationFailedUpdates(verificationResult)))
    ELSE Advance(r, "submitting", <<>>,
                 updateState(updateState(state,
                                 [verificationResult |-> verificationResult]),
                             SubmittingUpdates))

\* the rest of executeVerificationTask, then lines 168-189
ContExecute(r, outcome) ==
    /\ r.pc = "execute"
    /\ IF outcome.settled = "rejected"
       THEN Throw(r, <<>>, "execute", 4, "processProtectedData failed", state)
       ELSE IF ~outcome.json
       THEN Throw(r, <<>>, "parse", 4, "Unexpected token in JSON", state)
       ELSE AfterAttestation(r, outcome.value)

\* simulateVerification, then lines 177-189
ContSimulate(r) ==
    /\ r.pc = "simulate"
    /\ AfterAttestation(r, simulateVerification(r.kycData, r.userAddress, Now))

\* lines 190-199: the timer and generateMockTransactionHash
ContSubmitting(r, txHash) ==
    /\ r.pc = "submitting"
    /\ Settle(r, <<Call("generateMockTransactionHash", NoArg)>>,
              "completed", "", 6, updateState(state, CompletedUpdates(txHash)))

\* the wall clock passes midnight
Tick ==
    /\ clock < MaxClock
    /\ clock' = clock + 1
    /\ UNCHANGED <<state, runs, cb, attempts, hist, last, lib>>

---------------------------------------------------------------------------

Init ==
    /\ state = InitialState
    /\ runs = EmptyBag
    /\ cb = [userAddress |-> NULL, provider |-> NULL, chainId |-> NoChainId]
    /\ clock = 0
    /\ attempts = 0
    /\ hist = <<>>
    /\ last = NoLast
    /\ call = NoCall
    /\ app_logs = <<>>
    /\ verifications = [user \in LedgerUsers |-> NoVerification]
    /\ blockTimestamp = GenesisTime
    /\ trustedEnclave = "0xenclave"
    /\ wallet = InitialWallet

Next ==
    \/ \E p \in HookProps : Render(p)
    \/ \E k \in KYCInputs : startVerification(k)
    \/ reset
    \/ \E r \in InFlight, ok \in BOOLEAN : ContEncrypting(r, ok)
    \/ \E r \in InFlight : ContComputing(r)
    \/ \E r \in InFlight, o \in {"dataProtector", NULL, "providerError"} : ContConnect(r, o)
    \/ \E r \in InFlight, h \in Handles \cup {"rejected"} : ContProtect(r, h)
    \/ \E r \in InFlight, o \in GrantOutcomes : ContGrant(r, o)
    \/ \E r \in InFlight, o \in TaskOutcomes : ContExecute(r, o)
    \/ \E r \in InFlight : ContSimulate(r)
    \/ \E r \in InFlight, tx \in TxHashes : ContSubmitting(r, tx)
    \/ Tick

Spec == Init /\ [][Next]_vars

---------------------------------------------------------------------------
(* app/page.tsx with hooks/use-wallet.ts: the page renders both hooks, the *)
(* wallet hook's state is the argument list of the verification hook.      *)
(* Every setWalletState re-renders the page; the render is part of the     *)
(* action that sets the state.  An injected wallet is present throughout.  *)

\* useKYCVerification(address, provider, chainId) of a render: React keeps
\* the memoized startVerification unless userAddress differs from the one
\* of the previous render (the dependency list is [userAddress])
Memoized(w) ==
    IF w.address # cb.userAddress
    THEN [userAddress |-> w.address, provider |-> w.provider, chainId |-> w.chainId]
    ELSE cb

\* the wallet hook's state becomes w and the page is rendered
SetWallet(w) ==
    /\ wallet' = w
    /\ cb' = Memoized(w.walletState)
    /\ UNCHANGED <<state, runs, clock, attempts, hist, last, call, app_logs, ledger>>

\* the effect of the first render: the listeners are registered and
\* checkConnection() adopts an account the wallet already exposes
mount ==
    /\ ~wallet.mounted
    /\ LET e == wallet.ethereum
       IN  SetWallet([wallet EXCEPT
               !.mounted = TRUE,
               !.walletState = IF Len(e.accounts) > 0
                               THEN ConnectedWallet(e.accounts, e.chainId)
                               ELSE @])

\* the user unlocks, locks or switches the account in the wallet, which
\* emits accountsChanged to the registered listener
accountsChanged(accounts) ==
    /\ accounts # wallet.ethereum.accounts
    /\ SetWallet([wallet EXCEPT
           !.ethereum.accounts = accounts,
           !.walletState = IF wallet.mounted
                           THEN handleAccountsChanged(@, accounts) ELSE @])

\* the user switches the network in the wallet, which emits chainChanged
chainChanged(chainIdNum) ==
    /\ chainIdNum # wallet.ethereum.chainId
    /\ SetWallet([wallet EXCEPT
           !.ethereum.chainId = chainIdNum,
           !.walletState = IF wallet.mounted
                           THEN handleChainChanged(@, chainIdNum) ELSE @])

\* connect(): eth_requestAccounts is approved (a locked wallet then exposes
\* the account the user picks) or rejected with code 4001
connect(approved, picked) ==
    /\ wallet.mounted
    /\ LET e == wallet.ethereum
           accounts == IF Len(e.accounts) > 0 THEN e.accounts ELSE <<picked>>
       IN  IF approved
           THEN SetWallet([wallet EXCEPT
                    !.ethereum.accounts = accounts,
                    !.error = NULL,
                    !.walletState = ConnectedWallet(accounts, e.chainId)])
           ELSE SetWallet([wallet EXCEPT
                    !.error = "Connection rejected. Please approve the connection request."])

disconnect ==
    SetWallet([wallet EXCEPT !.walletState = DisconnectedWallet])

\* switchToArbitrumSepolia(): the wallet switches and emits chainChanged,
\* or refuses
switchToArbitrumSepolia(approved) ==
    /\ wallet.mounted
    /\ IF approved
       THEN SetWallet([wallet EXCEPT
                !.ethereum.chainId = ARBITRUM_SEPOLIA_CHAIN_ID,
                !.walletState = handleChainChanged(@, ARBITRUM_SEPOLIA_CHAIN_ID)])
       ELSE SetWallet([wallet EXCEPT
                !.error = "Failed to switch to Arbitrum Sepolia."])

clearError ==
    SetWallet([wallet EXCEPT !.error = NULL])

\* what the page shows
isVerifying ==
    state.status \in {"encrypting", "protecting", "computing", "verifying", "submitting"}
ConnectShown == ~wallet.walletState.isConnected
SwitchShown ==
    wallet.walletState.isConnected /\ ~wallet.walletState.isCorrectNetwork
ResultShown ==
    /\ wallet.walletState.isConnected /\ wallet.walletState.isCorrectNetwork
    /\ state.status = "completed" /\ state.verificationResult # Null
TryAgainShown ==
    /\ wallet.walletState.isConnected /\ wallet.walletState.isCorrectNetwork
    /\ ~ResultShown /\ state.status = "failed"
FormShown ==
    /\ wallet.walletState.isConnected /\ wallet.walletState.isCorrectNetwork
    /\ ~ResultShown /\ ~isVerifying /\ state.status # "failed"

\* the form's onSubmit
handleSubmit(kycData) ==
    IF ~wallet.walletState.isConnected
    THEN \E approved \in BOOLEAN, a \in WalletAccounts : connect(approved, a)
    ELSE startVerification(kycData)

WalletNext ==
    \/ mount
    \/ \E a \in WalletAccounts : accountsChanged(<<a>>)
    \/ accountsChanged(<<>>)
    \/ \E c \in WalletChains : chainChanged(c)
    \/ ConnectShown /\ \E approved \in BOOLEAN, a \in WalletAccounts : connect(approved, a)
    \/ wallet.walletState.isConnected /\ disconnect
    \/ SwitchShown /\ \E approved \in BOOLEAN : switchToArbitrumSepolia(approved)
    \/ wallet.error # NULL /\ clearError
    \/ FormShown /\ \E k \in {KYCGood, KYCMinor} : handleSubmit(k)
    \/ (ResultShown \/ TryAgainShown) /\ reset
    \/ \E r \in InFlight, ok \in BOOLEAN : ContEncrypting(r, ok)
    \/ \E r \in InFlight : ContComputing(r)
    \/ \E r \in InFlight, o \in {"dataProtector", NULL, "providerError"} : ContConnect(r, o)
    \/ \E r \in InFlight, h \in Handles \cup {"rejected"} : ContProtect(r, h)
    \/ \E r \in InFlight, o \in GrantOutcomes : ContGrant(r, o)
    \/ \E r \in InFlight, o \in TaskOutcomes : ContExecute(r, o)
    \/ \E r \in InFlight : ContSimulate(r)
    \/ \E r \in InFlight, tx \in TxHashes : ContSubmitting(r, tx)

WalletSpec == Init /\ [][WalletNext]_vars

---------------------------------------------------------------------------
(* The service functions called directly, with the stored log they fill.   *)

\* the state of the page: both hooks
hook == <<state, runs, cb, clock, attempts, hist, last, wallet>>

\* the evaluation instant of the direct calls
LogNow == [date |-> StartDate, ms |-> NoonMs, tz |-> LocalOffsetHours]

\* the identity record with one required field left empty
KYCBlanked ==
    { [KYCGood EXCEPT !.documentType = ""], [KYCGood EXCEPT !.documentNumber = ""],
      [KYCGood EXCEPT !.fullName = ""], [KYCGood EXCEPT !.dateOfBirth = <<>>],
      [KYCGood EXCEPT !.nationality = ""], [KYCGood EXCEPT !.expiryDate = <<>>] }

\* service calls whose first (or only) entry the stored log holds
LoggedCalls ==
    Cardinality({i \in 1..Len(app_logs) :
                    app_logs[i].message \in {"Starting KYC data protection",
                                             "Access granted for KYC verification",
                                             "Failed to grant access",
                                             "Failed to fetch verification status"}})

CallProtectKYCData(kycData, userAddress, outcome) ==
    /\ LoggedCalls < MaxLoggedCalls
    /\ LET result == protectKYCData(kycData, userAddress, outcome, LogNow)
       IN  /\ call' = [fn |-> "protectKYCData", kycData |-> kycData,
                       outcome |-> outcome, result |-> result]
           /\ app_logs' = PersistAll(app_logs, result.logs)
    /\ UNCHANGED <<hook, ledger>>

CallGrantVerificationAccess(protectedDataAddress, userAddress, outcome) ==
    /\ LoggedCalls < MaxLoggedCalls
    /\ LET result == grantVerificationAccess(protectedDataAddress, userAddress,
                                             outcome, LogNow)
       IN  /\ call' = [fn |-> "grantVerificationAccess",
                       protectedDataAddress |-> protectedDataAddress,
                       userAddress |-> userAddress, outcome |-> outcome,
                       result |-> result]
           /\ app_logs' = PersistAll(app_logs, result.logs)
    /\ UNCHANGED <<hook, ledger>>

clearStoredLogs ==
    /\ app_logs # <<>>
    /\ app_logs' = <<>>
    /\ call' = [fn |-> "clearStoredLogs"]
    /\ UNCHANGED <<hook, ledger>>

LogNext ==
    \/ \E k \in {KYCGood} \cup KYCBlanked, u \in Addresses,
          o \in Handles \cup {"rejected"} : CallProtectKYCData(k, u, o)
    \/ \E h \in Handles, u \in Addresses, o \in GrantOutcomes :
          CallGrantVerificationAccess(h, u, o)
    \/ clearStoredLogs

LogSpec == Init /\ [][LogNext]_vars

---------------------------------------------------------------------------
(* The pure functions called directly, on inputs around their boundaries.  *)

ChainIds == {421614, 42161, 1, 0}

\* offsets of the local time zone from UTC, in hours
TimeZones == {-5, 0, 2}

\* evaluation instants: 2024-06-01 at midnight and at noon UTC
LibTodays ==
    {[date |-> <<2024, 6, 1>>, ms |-> m, tz |-> z] : m \in {0, NoonMs}, z \in TimeZones}

\* 18 and 21 years before the evaluation date, the days around them, a
\* leap day, an adult and a child
BirthDates ==
    { <<2006, 6, 1>>, <<2006, 6, 2>>, <<2006, 5, 31>>, <<2003, 6, 1>>,
      <<2003, 6, 2>>, <<2004, 2, 29>>, <<2000, 1, 1>>, <<2010, 3, 15>> }

MinimumAges == {18, 21}

\* 29 to 32 days after the evaluation date, the day before it, the day
\* itself and two years later
ExpiryDates ==
    { <<2024, 6, 30>>, <<2024, 7, 1>>, <<2024, 7, 2>>, <<2024, 7, 3>>,
      <<2024, 5, 31>>, <<2024, 6, 1>>, <<2026, 6, 1>> }

\* records that pass or fail each of the three checks
KYCFull ==
    {[KYCGood EXCEPT !.dateOfBirth = d, !.expiryDate = e, !.nationality = n] :
        d \in {<<2000, 1, 1>>, <<2010, 3, 15>>},
        e \in {<<2026, 6, 1>>, <<2024, 5, 31>>},
        n \in {"Canada", "Germany"}}

FullOptions ==
    { [minimumAge |-> 18], [minimumAge |-> 21],
      [allowedNationalities |-> {"Canada", "USA"}],
      [allowedNationalities |-> {}],
      [minimumAge |-> 18, allowedNationalities |-> {"Canada", "USA"}] }

CallGetNetworkConfig(chainId) ==
    /\ call' = [fn |-> "getNetworkConfig", chainId |-> chainId,
                result |-> getNetworkConfig(chainId)]
    /\ UNCHANGED <<hook, ledger, app_logs>>

CallGenerateAgeVerificationProof(dateOfBirth, minimumAge, userAddress, today) ==
    /\ call' = [fn |-> "generateAgeVerificationProof",
                dateOfBirth |-> dateOfBirth, minimumAge |-> minimumAge,
                userAddress |-> userAddress, today |-> today,
                result |-> generateAgeVerificationProof(dateOfBirth, minimumAge,
                                                        userAddress, today)]
    /\ UNCHANGED <<hook, ledger, app_logs>>

CallGenerateDocumentValidityProof(expiryDate, documentType, userAddress, today) ==
    /\ call' = [fn |-> "generateDocumentValidityProof",
                expiryDate |-> expiryDate, documentType |-> documentType,
                userAddress |-> userAddress, today |-> today,
                result |-> generateDocumentValidityProof(expiryDate, documentType,
                                                         userAddress, today)]
    /\ UNCHANGED <<hook, ledger, app_logs>>

CallGenerateFullKYCProof(kycData, userAddress, options, today) ==
    /\ call' = [fn |-> "generateFullKYCProof", kycData |-> kycData,
                userAddress |-> userAddress, options |-> options, today |-> today,
                result |-> generateFullKYCProof(kycData, userAddress, options, today)]
    /\ UNCHANGED <<hook, ledger, app_logs>>

\* proofs as the generator returns them, passing and failing
GeneratedProofs ==
    {generateFullKYCProof(k, "0xabc", [minimumAge |-> 18],
                          [date |-> <<2024, 6, 1>>, ms |-> NoonMs, tz |-> 0]) :
        k \in KYCFull}

\* what a caller can make of a proof: the digest emptied or cut short (a
\* string is kept as its width and what it was derived from), the public
\* signals emptied, or the publicSignals property left out
ProofInputs ==
    GeneratedProofs
    \cup {[p EXCEPT !.proof.width = w] : p \in GeneratedProofs, w \in {0, 63}}
    \cup {[p EXCEPT !.publicSignals = <<>>] : p \in GeneratedProofs}
    \cup {[proof |-> [p.proof EXCEPT !.width = w], nullifierHash |-> p.nullifierHash] :
             p \in GeneratedProofs, w \in {0, 64}}

\* proof.publicSignals.length is read only once the two tests of the digest
\* passed; on a proof without publicSignals that read is a TypeError
CallVerifyZKProof(proof) ==
    /\ call' = [fn |-> "verifyZKProof", proof |-> proof,
                result |-> IF /\ proof.proof.width # 0
                              /\ proof.proof.width = 64
                              /\ "publicSignals" \notin DOMAIN proof
                           THEN [threw |-> TRUE]
                           ELSE [threw |-> FALSE, value |-> verifyZKProof(proof)]]
    /\ UNCHANGED <<hook, ledger, app_logs>>

\* the other adult checks of the repository, called on the same dates
CallVerify(identity, today) ==
    /\ call' = [fn |-> "verify", identity |-> identity,
                dateOfBirth |-> identity.dateOfBirth, today |-> today,
                result |-> verify(identity, today)]
    /\ UNCHANGED <<hook, ledger, app_logs>>

CallGenerateAgeProof(dateOfBirth, minimumAge, today) ==
    /\ call' = [fn |-> "generateAgeProof", dateOfBirth |-> dateOfBirth,
                minimumAge |-> minimumAge, today |-> today,
                result |-> generateAgeProof(dateOfBirth, minimumAge, today)]
    /\ UNCHANGED <<hook, ledger, app_logs>>

CallValidateForm(dateOfBirth, today) ==
    /\ call' = [fn |-> "validateForm", dateOfBirth |-> dateOfBirth, today |-> today,
                result |-> [dateOfBirth |-> validateFormDateOfBirth(dateOfBirth, today)]]
    /\ UNCHANGED <<hook, ledger, app_logs>>

CallIsAdult(dateOfBirth, minimumAge, today) ==
    /\ call' = [fn |-> "isAdult", dateOfBirth |-> dateOfBirth,
                minimumAge |-> minimumAge, today |-> today,
                result |-> isAdult(dateOfBirth, minimumAge, today)]
    /\ UNCHANGED <<hook, ledger, app_logs>>

LibNext ==
    \/ \E c \in ChainIds : CallGetNetworkConfig(c)
    \/ \E d \in BirthDates, e \in {<<2026, 6, 1>>, <<2024, 5, 31>>}, t \in LibTodays :
          CallVerify([KYCGood EXCEPT !.dateOfBirth = d, !.expiryDate = e], t)
    \/ \E d \in BirthDates, m \in MinimumAges, t \in LibTodays :
          CallGenerateAgeProof(d, m, t)
    \/ \E d \in BirthDates \cup {<<>>}, t \in LibTodays : CallValidateForm(d, t)
    \/ \E d \in BirthDates, m \in MinimumAges, t \in LibTodays : CallIsAdult(d, m, t)
    \/ \E p \in ProofInputs : CallVerifyZKProof(p)
    \/ \E d \in BirthDates, m \in MinimumAges, u \in Addresses, t \in LibTodays :
          CallGenerateAgeVerificationProof(d, m, u, t)
    \/ \E e \in ExpiryDates, u \in Addresses, t \in LibTodays :
          CallGenerateDocumentValidityProof(e, "passport", u, t)
    \/ \E k \in KYCFull, u \in Addresses, o \in FullOptions, t \in LibTodays :
          CallGenerateFullKYCProof(k, u, o, t)

LibSpec == Init /\ [][LibNext]_vars

---------------------------------------------------------------------------
(* The digest, nullifier and commitment helpers and the functions that     *)
(* take the subject address, called directly on subjects and documents     *)
(* that differ in one respect at a time.  Here an address is the sequence  *)
(* of its characters, so that letter case can be told apart.               *)

Subjects ==
    { <<"0", "x", "a", "b", "c">>, <<"0", "x", "A", "b", "C">>,
      <<"0", "x", "d", "e", "f">> }

\* two document types, two document numbers, two holders
KYCBind ==
    {[KYCGood EXCEPT !.documentType = ty, !.documentNumber = n, !.fullName = f] :
        ty \in {"passport", "id_card"}, n \in {"P1234567", "X7654321"},
        f \in {"Ada Lovelace", "Grace Hopper"}}

\* two evaluation instants of the same day
BindTodays ==
    {[date |-> StartDate, ms |-> m, tz |-> LocalOffsetHours] : m \in {0, NoonMs}}

BindOptions == {[minimumAge |-> 18], [minimumAge |-> 21]}

\* records differing in each of the six fields
KYCRecords ==
    {[documentType |-> ty, documentNumber |-> n, fullName |-> f,
      dateOfBirth |-> d, nationality |-> c, expiryDate |-> e] :
        ty \in {"passport", "id_card"}, n \in {"P1234567", "X7654321"},
        f \in {"Ada Lovelace", "Grace Hopper"},
        d \in {<<2000, 1, 1>>, <<2010, 3, 15>>}, c \in {"Canada", "Germany"},
        e \in {<<2026, 6, 1>>, <<2024, 5, 31>>}}

\* the orders in which a caller may have assigned the properties of a record
InsertionOrders ==
    { <<"documentType", "documentNumber", "fullName", "dateOfBirth",
        "nationality", "expiryDate">>,
      <<"expiryDate", "nationality", "dateOfBirth", "fullName",
        "documentNumber", "documentType">> }

\* an object as the sequence of its <<key, value>> properties in insertion
\* order, and the property access obj.key on it
EntriesOf(kycData, order) ==
    [i \in 1..Len(order) |-> <<order[i], kycData[order[i]]>>]
ObjectOf(entries) ==
    [key \in {entries[i][1] : i \in 1..Len(entries)} |->
        entries[CHOOSE i \in 1..Len(entries) : entries[i][1] = key][2]]

\* inputs of the digest: texts, and the inputs of the nullifier derivation
DigestInputs == {[str |-> "P1234567"], [str |-> "X7654321"], [str |-> ""]}

CallCreateCommitment(entries) ==
    /\ call' = [fn |-> "createCommitment", entries |-> entries,
                result |-> createCommitment(ObjectOf(entries))]
    /\ UNCHANGED <<hook, ledger, app_logs>>

CallHashData(data) ==
    /\ call' = [fn |-> "hashData", data |-> data, result |-> hashData(data)]
    /\ UNCHANGED <<hook, ledger, app_logs>>

CallGenerateNullifierHash(documentHash, userAddress) ==
    /\ call' = [fn |-> "generateNullifierHash", documentHash |-> documentHash,
                userAddress |-> userAddress,
                result |-> generateNullifierHash(documentHash, userAddress)]
    /\ UNCHANGED <<hook, ledger, app_logs>>

BindingNext ==
    \/ \E k \in KYCBind, u \in Subjects, o \in BindOptions, t \in BindTodays :
          CallGenerateFullKYCProof(k, u, o, t)
    \/ \E k \in KYCRecords, order \in InsertionOrders :
          CallCreateCommitment(EntriesOf(k, order))
    \/ \E d \in DigestInputs : CallHashData(d)
    \/ \E d \in DigestInputs, u \in Subjects :
          CallGenerateNullifierHash(hashData(d), u)

BindingSpec == Init /\ [][BindingNext]_vars

\* the functions that send the subject address to a collaborator or bind
\* it into a digest, called for addresses that differ in letter case only
CallFetchVerificationStatus(userAddress, isTestnet, response) ==
    /\ LoggedCalls < MaxLoggedCalls
    /\ LET result == fetchVerificationStatus(userAddress, isTestnet, response, LogNow)
       IN  /\ call' = [fn |-> "fetchVerificationStatus", userAddress |-> userAddress,
                       isTestnet |-> isTestnet, response |-> response,
                       result |-> result]
           /\ app_logs' = PersistAll(app_logs, result.logs)
    /\ UNCHANGED <<hook, ledger>>

SubjectNext ==
    \/ \E u \in Subjects, net \in BOOLEAN, r \in FetchResponses :
          CallFetchVerificationStatus(u, net, r)
    \/ \E u \in Subjects, o \in {"granted", "denied"} :
          CallGrantVerificationAccess("0xpd1", u, o)
    \/ \E n \in {"P1234567", "X7654321"}, u \in Subjects, t \in BindTodays :
          CallGenerateFullKYCProof([KYCGood EXCEPT !.documentNumber = n], u,
                                   [minimumAge |-> 18], t)
    \/ clearStoredLogs

SubjectSpec == Init /\ [][SubjectNext]_vars

---------------------------------------------------------------------------
(* The worker that runs inside the confidential environment (the script    *)
(* that follows the logger in lib/logger.ts).  One invocation of main is   *)
(* one action: nothing else runs in the worker's process.  The result of   *)
(* an invocation is what it left behind: whether the promise of main       *)
(* rejected, the files it wrote under IEXEC_OUT in order (the log file     *)
(* aside) and the verificationResults array as it stood at the end.        *)

MaxItems == 2       \* protected documents in one bulk batch

\* a document text, by what the validators look for in it: its length, the
\* longest run of capitals and digits, a name, a date
DocComplete == [text |-> "passport text", length |-> 48, run |-> 9,
                name |-> TRUE, date |-> TRUE]
DocUndated == [text |-> "undated text", length |-> 36, run |-> 9,
               name |-> TRUE, date |-> FALSE]

validatePassportFormat(data) ==
    LET hasPassportNumber == data.run >= 6
        hasName == data.name
        hasDate == data.date
    IN  hasPassportNumber /\ hasName /\ hasDate

validateIdCardFormat(data) ==
    LET hasIdNumber == data.run >= 8
        hasName == data.name
    IN  hasIdNumber /\ hasName

\* `x && x.length > 0` is `true` only for a non-empty x; the checks record
\* keeps FALSE where the script keeps the falsy operand itself
performKYCVerification(documentInfo) ==
    LET documentData == documentInfo.documentData
        documentType == documentInfo.documentType
        userId == documentInfo.userId
        documentHash == documentInfo.documentHash
        formatValid == IF documentType = "passport"
                       THEN validatePassportFormat(documentData)
                       ELSE IF documentType = "id_card"
                       THEN validateIdCardFormat(documentData)
                       ELSE TRUE
        checks == [hasData |-> documentData.length > 0,
                   validType |-> documentType \in {"passport", "id_card",
                                                   "drivers_license", "utility_bill"},
                   validUserId |-> userId # "",
                   dataIntegrity |-> documentHash.width = 64,
                   formatValid |-> formatValid]
        allChecksPass == \A c \in DOMAIN checks : checks[c] = TRUE
    IN  [status |-> IF allChecksPass THEN "VERIFIED" ELSE "FAILED",
         details |-> [checks |-> checks, documentType |-> documentType,
                      userId |-> userId, documentHash |-> documentHash]]

\* lines 585-592: what the catch block of one item pushes
ItemCatch_Dropped(i, message, now) == <<>>
ItemCatch(i, message, now) ==
    <<[documentIndex |-> i, error |-> message, timestamp |-> now]>>

\* lines 548-592: one turn of the bulk loop on item i; the deserializer
\* delivers the three values or throws
ProcessItem(i, item, now) ==
    IF item.read = "throws"
    THEN [entries |-> ItemCatch(i, item.message, now), hashes |-> <<>>]
    ELSE LET docHash == hashData(item.documentData)
             verification == performKYCVerification(
                                 [documentData |-> item.documentData,
                                  documentType |-> item.documentType,
                                  userId |-> item.userId,
                                  documentHash |-> docHash])
         IN  [entries |-> <<[userId |-> item.userId,
                             documentType |-> item.documentType,
                             documentHash |-> docHash,
                             verificationStatus |-> verification.status,
                             verificationDetails |-> verification.details,
                             timestamp |-> now]>>,
              hashes |-> <<docHash>>]

RECURSIVE BulkLoop(_, _, _, _)
BulkLoop(items, i, now, acc) ==
    IF i > Len(items) THEN acc
    ELSE LET turn == ProcessItem(i, items[i], now)
         IN  BulkLoop(items, i + 1, now,
                      [verificationResults |-> acc.verificationResults \o turn.entries,
                       documentHashes |-> acc.documentHashes \o turn.hashes])

\* `r.verificationStatus === value` on an entry: the entries pushed by the
\* catch block have no verificationStatus
StatusIs(r, value) ==
    "verificationStatus" \in DOMAIN r /\ r.verificationStatus = value

\* line 637
OverallStatus(verificationResults) ==
    IF \A i \in 1..Len(verificationResults) :
           StatusIs(verificationResults[i], "VERIFIED")
    THEN "ALL_VERIFIED" ELSE "PARTIAL_VERIFICATION"

CountStatus(verificationResults, value) ==
    Cardinality({i \in 1..Len(verificationResults) :
                    StatusIs(verificationResults[i], value)})

ReportPath(out) == <<out, "/kyc-verification-result.json">>
ComputedPath(out) == <<out, "/computed.json">>

\* env: the environment of one invocation.  IEXEC_OUT is the output
\* directory, or NULL when the variable is not set: path.join(undefined,
\* 'app.log') in the logger set-up (line 525) then throws, outside the try
\* block.  items are the protected documents of the bulk slice; files tell
\* for each input file whether it can be read; reportWritable whether the
\* report file can be written; uuid and now are the values randomUUID and
\* the clock return during the invocation.
main(env) ==
    LET out == env.IEXEC_OUT
        loop == BulkLoop(env.items, 1, env.now,
                         [verificationResults |-> <<>>, documentHashes |-> <<>>])
        readable == {i \in 1..Len(env.files) : env.files[i].readable}
        allRead == readable = 1..Len(env.files)
        \* the files copied before the first unreadable one
        copied == {i \in readable : \A j \in 1..i : j \in readable}
        copies == [i \in 1..Cardinality(copied) |->
                      [path |-> <<out, "/processed_", env.files[i].name>>,
                       content |-> env.files[i].data]]
        fileHashes == [i \in 1..Len(env.files) |-> hashData(env.files[i].data)]
        kycReport ==
            [verificationId |-> env.uuid,
             totalDocuments |-> Len(loop.verificationResults),
             verifiedDocuments |-> CountStatus(loop.verificationResults, "VERIFIED"),
             failedDocuments |-> CountStatus(loop.verificationResults, "FAILED"),
             documentHashes |-> loop.documentHashes \o fileHashes,
             verificationResults |-> loop.verificationResults,
             overallStatus |-> OverallStatus(loop.verificationResults),
             processedAt |-> env.now]
        done == [path |-> ComputedPath(out),
                 content |-> ("deterministic-output-path" :> ReportPath(out))]
        oops == [path |-> ComputedPath(out),
                 content |-> ("deterministic-output-path" :> <<out>>)
                             @@ ("error-message" :> "Oops something went wrong")]
    IN  IF env.IEXEC_OUT = NULL
        THEN [rejected |-> TRUE, writes |-> <<>>, verificationResults |-> <<>>]
        ELSE IF ~allRead \/ ~env.reportWritable
        THEN [rejected |-> FALSE, writes |-> copies \o <<oops>>,
              verificationResults |-> loop.verificationResults]
        ELSE [rejected |-> FALSE,
              writes |-> copies \o <<[path |-> ReportPath(out),
                                      content |-> JSONStringify(kycReport)], done>>,
              verificationResults |-> loop.verificationResults]

\* items of a batch: one that verifies, one that fails a check, one whose
\* deserialization throws
ItemInputs ==
    { [read |-> "ok", documentData |-> DocComplete, documentType |-> "passport",
       userId |-> "user-1"],
      [read |-> "ok", documentData |-> DocUndated, documentType |-> "passport",
       userId |-> "user-2"],
      [read |-> "throws", message |-> "Failed to load protected data"] }

RECURSIVE Batches(_)
Batches(n) ==
    IF n = 0 THEN {<<>>}
    ELSE Batches(n - 1)
         \cup {Append(b, x) : b \in {c \in Batches(n - 1) : Len(c) = n - 1},
                              x \in ItemInputs}

InputFiles ==
    { <<>>, <<[name |-> "extra.pdf", data |-> "extra", readable |-> TRUE]>>,
      <<[name |-> "extra.pdf", data |-> "extra", readable |-> FALSE]>> }

WorkerEnvs ==
    {[IEXEC_OUT |-> "/iexec_out", items |-> b, files |-> f,
      reportWritable |-> w, secrets |-> sec, uuid |-> id, now |-> t] :
        b \in Batches(MaxItems), f \in InputFiles,
        w \in BOOLEAN, sec \in {{}, {"IEXEC_APP_DEVELOPER_SECRET",
                                     "IEXEC_REQUESTER_SECRET_1"}},
        id \in {"uuid-1", "uuid-2"},
        t \in {"2024-06-01T12:00:00.000Z", "2024-06-01T12:00:05.000Z"}}
    \cup
    {[IEXEC_OUT |-> NULL, items |-> b, files |-> <<>>,
      reportWritable |-> TRUE, secrets |-> {}, uuid |-> "uuid-1",
      now |-> "2024-06-01T12:00:00.000Z"] : b \in Batches(MaxItems)}

RunMain(env) ==
    /\ call' = [fn |-> "main", env |-> env, result |-> main(env)]
    /\ UNCHANGED <<hook, ledger, app_logs>>

\* lib/types/kyc.ts: the document types a record of the form can carry
DocumentType == {"passport", "national_id", "driving_license", "aadhaar", "pan_card"}

\* the items the worker can be given: every document type of the form and
\* every type of the worker's own list, with a complete or an undated text,
\* a present or an empty user id
DocumentInfos ==
    {[documentData |-> d, documentType |-> t, userId |-> u,
      documentHash |-> hashData(d)] :
        d \in {DocComplete, DocUndated},
        t \in DocumentType \cup {"id_card", "drivers_license", "utility_bill"},
        u \in {"user-1", ""}}

\* the verification of one item, as the bulk loop calls it (lines 567-572)
CallPerformKYCVerification(documentInfo) ==
    /\ call' = [fn |-> "performKYCVerification", documentInfo |-> documentInfo,
                result |-> performKYCVerification(documentInfo)]
    /\ UNCHANGED <<hook, ledger, app_logs>>

\* JSON.parse of a text: the value it is the text of, or a SyntaxError
JSONParse(text) ==
    IF "json" \in DOMAIN text
    THEN [threw |-> FALSE, value |-> text.json]
    ELSE [threw |-> TRUE]

\* lib/services/iexec.ts, executeVerificationTask: taskResult is what
\* core.processProtectedData settles with
executeVerificationTask(protectedDataAddress, isTestnet, taskResult) ==
    LET networkConfig == IF isTestnet THEN ARBITRUM_SEPOLIA_CONFIG
                         ELSE ARBITRUM_MAINNET_CONFIG
        request == [protectedData |-> protectedDataAddress,
                    app |-> IEXEC_KYC_APP_ADDRESS,
                    workerpool |-> networkConfig.workerpoolAddress]
        parsed == JSONParse(taskResult.result)
    IN  IF taskResult.settled = "rejected" \/ parsed.threw
        THEN [request |-> request, threw |-> TRUE]
        ELSE [request |-> request, threw |-> FALSE,
              value |-> [taskId |-> protectedDataAddress, result |-> parsed.value]]

\* the task of the backend: it runs the worker on the batch and settles
\* with the text of the file computed.json points to, or rejects when the
\* worker left no report
TaskResultOf(env) ==
    LET writes == main(env).writes
        reports == {i \in 1..Len(writes) : writes[i].path = ReportPath(env.IEXEC_OUT)}
    IN  IF reports = {} THEN [settled |-> "rejected", result |-> [error |-> "task failed"]]
        ELSE [settled |-> "resolved", result |-> writes[CHOOSE i \in reports : TRUE].content]

\* the executions the client is followed through: no extra input files
TaskEnvs ==
    {env \in WorkerEnvs :
        /\ env.IEXEC_OUT # NULL /\ env.files = <<>> /\ env.secrets = {}
        /\ env.uuid = "uuid-1" /\ env.now = "2024-06-01T12:00:00.000Z"}

\* the client's executeVerificationTask on a task that runs the worker
CallExecuteVerificationTask(protectedDataAddress, env) ==
    /\ call' = [fn |-> "executeVerificationTask", env |-> env,
                result |-> executeVerificationTask(protectedDataAddress, TRUE,
                                                   TaskResultOf(env))]
    /\ UNCHANGED <<hook, ledger, app_logs>>

WorkerNext ==
    \/ \E env \in WorkerEnvs : RunMain(env)
    \/ \E h \in Handles, env \in TaskEnvs : CallExecuteVerificationTask(h, env)
    \/ \E documentInfo \in DocumentInfos : CallPerformKYCVerification(documentInfo)

WorkerSpec == Init /\ [][WorkerNext]_vars

---------------------------------------------------------------------------
(* The ledger: the KYCVerifier contract (the Solidity text returned by     *)
(* generateContractCode) and the client functions that call it.  The       *)
(* client's clock and the chain's clock are one clock: Date.now() is       *)
(* blockTimestamp seconds plus some milliseconds.                          *)

MaxSeconds == 2     \* one-second steps of the clock within a period
MaxPeriods == 1     \* long steps of the clock

VERIFICATION_VALIDITY_PERIOD == 365 * 24 * 60 * 60

\* function isVerified(address user)
isVerified_Inclusive(user) ==
    LET v == verifications[user]
    IN  v.isVerified /\ v.expiryTimestamp >= blockTimestamp
isVerified(user) ==
    LET v == verifications[user]
    IN  v.isVerified /\ v.expiryTimestamp > blockTimestamp

\* function getVerification(address user)
getVerification(user) ==
    LET v == verifications[user]
    IN  << v.isVerified /\ v.expiryTimestamp > blockTimestamp,
           v.verificationTimestamp, v.proofHash, v.expiryTimestamp >>

\* function submitProof: the three require statements; signed tells whether
\* the signature recovers to trustedEnclave
SubmitProofReverts_Unsigned(result, expiryTimestamp, signed) ==
    result # TRUE \/ ~(expiryTimestamp > blockTimestamp)
SubmitProofReverts(result, expiryTimestamp, signed) ==
    ~signed \/ result # TRUE \/ ~(expiryTimestamp > blockTimestamp)

\* Math.floor(Date.now() / 1000) for Date.now() = <<seconds, milliseconds>>
FloorSeconds(dateNow) == dateNow[1]

\* submitVerificationProof: the arguments it passes to submitProof, the
\* effect of the transaction on the contract and what the client returns;
\* a reverted transaction makes writeContract throw
submitVerificationProof(userAddress, verificationResult, ms, signed, hash) ==
    LET proofHashBytes == verificationResult.proofHash
        signatureBytes == verificationResult.enclaveSignature
        expiryTimestamp == FloorSeconds(<<blockTimestamp, ms>>)
                           + VERIFICATION_VALIDITY_PERIOD
        args == <<userAddress, verificationResult.isValid, proofHashBytes,
                  signatureBytes, expiryTimestamp>>
    IN  /\ UNCHANGED <<hook, app_logs, blockTimestamp, trustedEnclave>>
        /\ IF SubmitProofReverts(verificationResult.isValid, expiryTimestamp, signed)
           THEN /\ call' = [fn |-> "submitVerificationProof", at |-> blockTimestamp,
                            args |-> args,
                            result |-> [hash |-> "", success |-> FALSE]]
                /\ UNCHANGED verifications
           ELSE /\ verifications' =
                       [verifications EXCEPT ![userAddress] =
                           [isVerified |-> TRUE,
                            verificationTimestamp |-> blockTimestamp,
                            proofHash |-> proofHashBytes,
                            expiryTimestamp |-> expiryTimestamp]]
                /\ call' = [fn |-> "submitVerificationProof", at |-> blockTimestamp,
                            args |-> args,
                            result |-> [hash |-> hash, success |-> TRUE]]

\* function revokeVerification(address user), called by the owner
revokeVerification(user) ==
    /\ verifications[user].isVerified
    /\ verifications' = [verifications EXCEPT ![user].isVerified = FALSE]
    /\ call' = [fn |-> "revokeVerification", user |-> user]
    /\ UNCHANGED <<hook, app_logs, blockTimestamp, trustedEnclave>>

\* the chain's clock advances by a second, or by a second less than the
\* validity period
BlockIntervals == {1, VERIFICATION_VALIDITY_PERIOD - 1}

Mine(interval) ==
    /\ LET elapsed == blockTimestamp - GenesisTime
       IN  IF interval = 1
           THEN elapsed % (VERIFICATION_VALIDITY_PERIOD - 1) < MaxSeconds
           ELSE elapsed \div (VERIFICATION_VALIDITY_PERIOD - 1) < MaxPeriods
    /\ blockTimestamp' = blockTimestamp + interval
    /\ UNCHANGED <<hook, call, app_logs, verifications, trustedEnclave>>

LedgerNext ==
    \/ \E u \in LedgerUsers, valid \in BOOLEAN, ms \in {0, 999},
          signed \in BOOLEAN, tx \in TxHashes :
          submitVerificationProof(u, Attestation(valid), ms, signed, tx)
    \/ \E u \in LedgerUsers : revokeVerification(u)
    \/ \E i \in BlockIntervals : Mine(i)

LedgerSpec == Init /\ [][LedgerNext]_vars

---------------------------------------------------------------------------
(* The KYCVerifier contract called directly, by any account and with any   *)
(* arguments.  A signature names the key that made it and the packed       *)
(* message it signs; recovering it against another message yields an       *)
(* address nobody holds.                                                   *)

Sign(key, message) == [by |-> key, over |-> message]

\* keccak256(abi.encodePacked(user, result, proofHash, expiryTimestamp))
MessageHash(user, result, proofHash, expiryTimestamp) ==
    <<user, result, proofHash, expiryTimestamp>>

\* ethSignedHash.recover(enclaveSignature)
recover(messageHash, signature) ==
    IF signature.over = messageHash THEN signature.by ELSE "0xnobody"

\* the proof hashes, expiry instants and signatures a caller can pass
ProofHashes == {Attestation(TRUE).proofHash}
ExpiryTimes == {GenesisTime + 1, GenesisTime + 2}
SigningKeys == {"0xenclave", "0xmallory"}
Signatures ==
    {Sign(k, MessageHash(u, b, h, e)) :
        k \in SigningKeys, u \in LedgerUsers, b \in BOOLEAN,
        h \in ProofHashes, e \in ExpiryTimes}

\* function submitProof(user, result, proofHash, enclaveSignature,
\* expiryTimestamp) external: msg.sender is not looked at
submitProof(user, result, proofHash, enclaveSignature, expiryTimestamp) ==
    LET messageHash == MessageHash(user, result, proofHash, expiryTimestamp)
        signer == recover(messageHash, enclaveSignature)
        args == <<user, result, proofHash, enclaveSignature, expiryTimestamp>>
    IN  /\ UNCHANGED <<hook, app_logs, blockTimestamp, trustedEnclave>>
        /\ IF SubmitProofReverts(result, expiryTimestamp, signer = trustedEnclave)
           THEN /\ call' = [fn |-> "submitProof", args |-> args,
                            reverted |-> TRUE]
                /\ UNCHANGED verifications
           ELSE /\ verifications' =
                       [verifications EXCEPT ![user] =
                           [isVerified |-> TRUE,
                            verificationTimestamp |-> blockTimestamp,
                            proofHash |-> proofHash,
                            expiryTimestamp |-> expiryTimestamp]]
                /\ call' = [fn |-> "submitProof", args |-> args,
                            reverted |-> FALSE]

\* modifier onlyOwner
onlyOwner(sender) == sender = ContractOwner

\* a transaction that reverts leaves the storage as it was
Reverted(fn, sender) ==
    /\ call' = [fn |-> fn, sender |-> sender, reverted |-> TRUE]
    /\ UNCHANGED <<hook, app_logs, ledger>>

\* function revokeVerification(address user) external onlyOwner
SendRevokeVerification(sender, user) ==
    IF onlyOwner(sender)
    THEN /\ verifications' = [verifications EXCEPT ![user].isVerified = FALSE]
         /\ call' = [fn |-> "revokeVerification", sender |-> sender,
                     user |-> user, reverted |-> FALSE]
         /\ UNCHANGED <<hook, app_logs, blockTimestamp, trustedEnclave>>
    ELSE Reverted("revokeVerification", sender)

\* function updateTrustedEnclave(address _newEnclave) external onlyOwner
updateTrustedEnclave(sender, newEnclave) ==
    IF onlyOwner(sender)
    THEN /\ trustedEnclave' = newEnclave
         /\ call' = [fn |-> "updateTrustedEnclave", sender |-> sender,
                     reverted |-> FALSE]
         /\ UNCHANGED <<hook, app_logs, verifications, blockTimestamp>>
    ELSE Reverted("updateTrustedEnclave", sender)

ContractNext ==
    \/ \E u \in LedgerUsers, b \in BOOLEAN, h \in ProofHashes,
          sig \in Signatures, e \in ExpiryTimes : submitProof(u, b, h, sig, e)
    \/ \E s \in Senders, u \in LedgerUsers : SendRevokeVerification(s, u)
    \/ \E s \in Senders, a \in Enclaves : updateTrustedEnclave(s, a)
    \/ Mine(1)

ContractSpec == Init /\ [][ContractNext]_vars

---------------------------------------------------------------------------
(* Vocabulary of the properties                                            *)

Pristine(s) ==
    /\ s.status = "idle" /\ s.currentStep = 0
    /\ s.protectedData = Null /\ s.zkProof = Null
    /\ s.verificationResult = Null
    /\ s.transactionHash = NULL /\ s.error = NULL

IsPrefix(a, b) == Len(a) <= Len(b) /\ SubSeq(b, 1, Len(a)) = a

\* the <<status, currentStep>> pairs of a run in which every step succeeds
Chain ==
    << <<"idle", 0>>, <<"encrypting", 2>>, <<"computing", 3>>,
       <<"verifying", 4>>, <<"submitting", 5>>, <<"completed", 6>> >>

\* run r is the one that takes the step
Stepped(r) == CopiesIn(r, runs') < CopiesIn(r, runs)

\* the functions a call log records as called
Called(log) == {log[j].fn : j \in {i \in 1..Len(log) : log[i].ev = "call"}}

RemoteFns ==
    {"initializeDataProtector", "protectKYCData", "core.protectData",
     "core.grantAccess", "core.processProtectedData", "simulateVerification"}

Terminal == {"completed", "failed"}

---------------------------------------------------------------------------
(* C1: a startVerification run with a bound subject that nothing disturbs  *)
(* and in which every step succeeds takes the session through              *)
(* idle/0, encrypting/2, computing/3, verifying/4, submitting/5,           *)
(* completed/6 in this order, without skipping or going back; a reset()    *)
(* afterwards leaves status = idle, currentStep = 0 and every artifact and *)
(* the error null.                                                         *)
C1_Theorem ==
    /\ (hist # <<>> /\ ~NoRuns) =>
           /\ IsPrefix(hist, Chain)
           /\ hist[Len(hist)] = <<state.status, state.currentStep>>
    /\ (last.kind = "completed" /\ last.clean) =>
           /\ hist = Chain
           /\ state.status = "completed" /\ state.currentStep = 6
    /\ (last.kind = "reset" /\ last.clean) =>
           /\ hist = Chain \o << <<"idle", 0>> >>
           /\ Pristine(state)

C1_Witness ==
    /\ last.kind = "reset" /\ last.clean
    /\ hist = Chain \o << <<"idle", 0>> >>
    /\ Pristine(state)

(* C2: once reset() was called, and until the next startVerification call, *)
(* the session stays idle with currentStep 0 and no artifact or error,     *)
(* whatever a run that was suspended at the reset does afterwards.         *)
C2_Claim == last.kind = "reset" => Pristine(state)

(* C3: at most one startVerification run is in flight for the session, so  *)
(* processProtectedData is never in progress twice at the same time.       *)
C3_Claim ==
    /\ BagCardinality(runs) <= 1
    /\ \A r \in InFlight : r.pc = "execute" =>
           /\ CopiesIn(r, runs) = 1
           /\ \A q \in InFlight : q.pc = "execute" => q = r

(* C4: while status is completed or failed, status, currentStep and the    *)
(* stored artifacts change only by a reset().                              *)
C4_Claim ==
    [][(/\ state.status \in Terminal
        /\ \/ state'.status # state.status
           \/ state'.currentStep # state.currentStep
           \/ state'.protectedData # state.protectedData
           \/ state'.zkProof # state.zkProof
           \/ state'.verificationResult # state.verificationResult
           \/ state'.transactionHash # state.transactionHash)
       => (last'.kind = "reset" /\ Pristine(state'))]_vars

(* C5: every change of status is a step of the chain idle -> encrypting -> *)
(* computing -> verifying -> submitting -> completed, a failure of an      *)
(* active (or unbound idle) session, or a reset() to idle.                 *)
AllowedTransitions ==
    { <<"idle", "encrypting">>, <<"encrypting", "computing">>,
      <<"computing", "verifying">>, <<"verifying", "submitting">>,
      <<"submitting", "completed">> }
    \cup { <<from, "failed">> :
              from \in {"idle", "encrypting", "computing", "verifying", "submitting"} }

C5_Claim ==
    [][state'.status # state.status =>
          \/ <<state.status, state'.status>> \in AllowedTransitions
          \/ (state'.status = "idle" /\ last'.kind = "reset")]_vars

(* C6: when verifyZKProof reports the freshly generated full-KYC proof     *)
(* invalid, the run ends there: status becomes failed, currentStep and     *)
(* zkProof are left as they were (3 and unset in an undisturbed run), and  *)
(* the run has called none of initializeDataProtector, protectKYCData,     *)
(* the backend operations or simulateVerification.                         *)
C6_RunEndsAtInvalidProof ==
    \A r \in InFlight :
        ( /\ r.pc = "computing"
          /\ Stepped(r)
          /\ ~verifyZKProof(generateFullKYCProof(r.kycData, r.userAddress,
                                                 [minimumAge |-> 18], Now)).isValid )
        => /\ runs' = Without(r)
           /\ state'.status = "failed"
           /\ state'.error # NULL
           /\ state'.currentStep = state.currentStep
           /\ state'.zkProof = state.zkProof
           /\ Called(last'.calls) \cap RemoteFns = {}

C6_Undisturbed ==
    (last.cause = "zkInvalid" /\ last.clean) =>
        /\ state.status = "failed" /\ state.currentStep = 3
        /\ state.zkProof = Null
        /\ hist = << <<"idle", 0>>, <<"encrypting", 2>>, <<"computing", 3>>,
                     <<"failed", 3>> >>

C6_Theorem == [](C6_Undisturbed) /\ [][C6_RunEndsAtInvalidProof]_vars

C6_Witness ==
    /\ last.cause = "zkInvalid" /\ last.clean
    /\ state.status = "failed" /\ state.currentStep = 3 /\ state.zkProof = Null

(* C7: when the attestation obtained in the verifying state (from the      *)
(* backend or from the simulation) is not valid, the run ends there:       *)
(* status becomes failed, verificationResult is that attestation, error is *)
(* set, and the run neither submits nor touches transactionHash (null in   *)
(* an undisturbed run); a run goes on to submitting only with a valid      *)
(* attestation.                                                            *)
C7_RunEndsAtInvalidAttestation ==
    \A r \in InFlight :
        (r.pc \in {"execute", "simulate"} /\ Stepped(r)) =>
            LET a == state'.verificationResult
                invalid == IF "isValid" \in DOMAIN a THEN ~a.isValid ELSE TRUE
                submits == \E q \in BagToSet(runs') :
                               q.pc = "submitting" /\ runs' = With(Without(r), q)
                sim == simulateVerification(r.kycData, r.userAddress, Now)
            IN  /\ submits => (~invalid /\ a # Null)
                /\ (r.pc = "simulate" /\ ~sim.isValid) => (~submits /\ a = sim)
                /\ (~submits /\ last'.cause = "attestationInvalid") =>
                       /\ runs' = Without(r)
                       /\ invalid /\ a # Null
                       /\ state'.status = "failed"
                       /\ state'.error # NULL
                       /\ state'.transactionHash = state.transactionHash
                       /\ "generateMockTransactionHash" \notin Called(last'.calls)
                /\ (~submits /\ last'.cause # "attestationInvalid") =>
                       /\ last'.cause \in {"execute", "parse"}
                       /\ a = state.verificationResult

C7_Undisturbed ==
    (last.cause = "attestationInvalid" /\ last.clean) =>
        /\ state.status = "failed" /\ state.currentStep = 4
        /\ state.verificationResult # Null
        /\ ~IsValidOf(state.verificationResult)
        /\ state.error # NULL
        /\ state.transactionHash = NULL

C7_Theorem == [](C7_Undisturbed) /\ [][C7_RunEndsAtInvalidAttestation]_vars

C7_Witness ==
    /\ last.cause = "attestationInvalid" /\ last.clean
    /\ state.status = "failed"
    /\ state.verificationResult = Attestation(FALSE)
    /\ state.transactionHash = NULL

(* C8: a startVerification call made while no subject is bound only sets   *)
(* status = failed and the binding error: currentStep and the artifacts    *)
(* are left unchanged, encrypting is not entered, and no run (hence no     *)
(* encryption, commitment, proof generation or remote call) is started.    *)
C8_Theorem ==
    [][(attempts' = attempts + 1 /\ cb.userAddress \in {NULL, ""}) =>
          /\ state' = [state EXCEPT !.status = "failed",
                                    !.error = "Please connect your wallet first"]
          /\ runs' = runs
          /\ last'.calls = <<>>]_vars

C8_Witness ==
    /\ last.cause = "unbound"
    /\ state.status = "failed"
    /\ state.error = "Please connect your wallet first"
    /\ state.currentStep = 0
    /\ NoRuns

(* C9: whenever status is failed, currentStep is the index of the step     *)
(* that was executing when the failure occurred; it does not change while  *)
(* the session stays failed; reset() sets it to 0.                         *)
C9_Claim ==
    [][/\ state'.status = "failed" => state'.currentStep = last'.step
       /\ (state.status = "failed" /\ state'.status = "failed") =>
              state'.currentStep = state.currentStep
       /\ (last'.kind = "reset" /\ last' # last) => state'.currentStep = 0]_vars

(* C10: in real-backend mode a run calls protectData, grantAccess and      *)
(* processProtectedData in this order on one handle: grantAccess right     *)
(* after protectData returned the handle it is given, processProtectedData *)
(* right after grantVerificationAccess returned true for that handle; a    *)
(* failed protect or a denied grant ends the run, in failed, without a     *)
(* processProtectedData call.                                              *)
OrderOK(log) ==
    \A j \in 1..Len(log) :
        /\ (log[j].ev = "call" /\ log[j].fn = "core.grantAccess") =>
               /\ j > 2
               /\ log[j - 1].ev = "return" /\ log[j - 1].fn = "core.protectData"
               /\ log[j - 1].arg.value = log[j].arg.protectedData
               /\ log[j - 2].ev = "call" /\ log[j - 2].fn = "core.protectData"
        /\ (log[j].ev = "call" /\ log[j].fn = "core.processProtectedData") =>
               /\ j > 2
               /\ log[j - 1].ev = "return"
               /\ log[j - 1].fn = "grantVerificationAccess"
               /\ log[j - 1].arg.value = TRUE
               /\ log[j - 2].ev = "call" /\ log[j - 2].fn = "core.grantAccess"
               /\ log[j - 2].arg.protectedData = log[j].arg.protectedData

C10_Theorem ==
    /\ \A r \in InFlight : OrderOK(r.calls)
    /\ OrderOK(last.calls)
    /\ last.cause \in {"protect", "grantDenied"} =>
           /\ last.kind = "failed"
           /\ "core.processProtectedData" \notin Called(last.calls)
           /\ last.clean => (state.status = "failed" /\ state.currentStep = 4)

C10_Witness ==
    /\ last.kind = "completed" /\ last.clean
    /\ {"core.protectData", "core.grantAccess", "core.processProtectedData"}
           \subseteq Called(last.calls)

(* C11: within one run each of protectData, grantAccess and                *)
(* processProtectedData is called at most once, whatever the outcomes; no  *)
(* step is retried, and after a failed remote step a further attempt is    *)
(* started only by a reset() followed by a new startVerification.          *)
BackendFns == {"core.protectData", "core.grantAccess", "core.processProtectedData"}

CalledTimes(log, fn) ==
    Cardinality({i \in 1..Len(log) : log[i].ev = "call" /\ log[i].fn = fn})

C11_AtMostOnce ==
    \A fn \in BackendFns :
        /\ \A r \in InFlight : CalledTimes(r.calls, fn) <= 1
        /\ CalledTimes(last.calls, fn) <= 1

C11_NoFurtherAttemptWithoutReset ==
    (last.kind = "failed" /\ Called(last.calls) \cap BackendFns # {})
        => BagCardinality(runs') <= BagCardinality(runs)

C11_Claim == [][C11_AtMostOnce' /\ C11_NoFurtherAttemptWithoutReset]_vars

(* C12: grantVerificationAccess returns true when the grant succeeds,      *)
(* returns false without throwing when the backend reports a denial, and   *)
(* throws when the transport fails.                                        *)
C12_Claim ==
    call.fn = "grantVerificationAccess" =>
        /\ call.outcome = "granted" =>
               (~call.result.threw /\ call.result.value = TRUE)
        /\ call.outcome = "denied" =>
               (~call.result.threw /\ call.result.value = FALSE)
        /\ call.outcome = "transport" => call.result.threw

(* C13: executeVerificationTask fails unless the backend's result string   *)
(* is JSON of an attestation with the fields isValid, timestamp,           *)
(* proofHash, enclaveSignature and attributes, so whatever the hook stores *)
(* as verificationResult has all of these fields.                          *)
AttestationFields ==
    {"isValid", "timestamp", "proofHash", "enclaveSignature", "attributes"}

C13_Claim ==
    state.verificationResult # Null =>
        AttestationFields \subseteq DOMAIN state.verificationResult

(* C14: protectKYCData with any one of documentType, documentNumber,       *)
(* fullName, dateOfBirth, nationality, expiryDate missing or empty throws  *)
(* before core.protectData is called; a run in which that happens ends in  *)
(* failed having called none of the backend operations.                    *)
C14_Theorem ==
    /\ \A k \in KYCBlanked, u \in Addresses, o \in Handles \cup {"rejected"} :
           LET result == protectKYCData(k, u, o, Now)
           IN  result.threw /\ result.core = <<>>
    /\ \A r \in InFlight :
           MissingRequiredField(r.kycData) => Called(r.calls) \cap BackendFns = {}
    /\ last.cause = "validation" =>
           /\ last.kind = "failed"
           /\ Called(last.calls) \cap BackendFns = {}
           /\ "protectKYCData" \in Called(last.calls)
           /\ last.clean =>
                  /\ state.status = "failed" /\ state.currentStep = 4
                  /\ state.error = "Missing required KYC data fields"

C14_Witness ==
    /\ last.cause = "validation" /\ last.clean
    /\ "protectKYCData" \in Called(last.calls)
    /\ state.status = "failed"
    /\ state.error = "Missing required KYC data fields"

(* C15: getNetworkConfig returns, for 421614 and for 42161, the profile    *)
(* whose chainId is the argument, and for any other chain ID the Arbitrum  *)
(* Sepolia profile.                                                        *)
C15_Claim ==
    call.fn = "getNetworkConfig" =>
        IF call.chainId \in {ARBITRUM_SEPOLIA_CONFIG.chainId,
                             ARBITRUM_MAINNET_CONFIG.chainId}
        THEN call.result.chainId = call.chainId
        ELSE call.result = ARBITRUM_SEPOLIA_CONFIG

(* C16: the persisted log (localStorage 'app_logs') never holds a private  *)
(* identity value in the clear: no entry carries a document number, full   *)
(* name, date of birth, nationality or expiry date, on success and on      *)
(* failure paths alike.                                                    *)
PrivateFields ==
    {"documentNumber", "fullName", "dateOfBirth", "nationality", "expiryDate"}

\* the entry's data holds a private field, by itself or inside the text of
\* the whole identity record
CarriesPlaintext(entry) ==
    \/ \E f \in DOMAIN entry.data \cap {"documentNumber", "fullName"} :
           entry.data[f] # ""
    \/ DOMAIN entry.data \cap {"dateOfBirth", "nationality", "expiryDate"} # {}
    \/ /\ "kycData" \in DOMAIN entry.data
       /\ DOMAIN entry.data.kycData.json \cap PrivateFields # {}

C16_Claim == \A i \in 1..Len(app_logs) : ~CarriesPlaintext(app_logs[i])

(* C17: generateAgeVerificationProof yields publicSignals = [flag,         *)
(* minimumAge, currentYear], where flag is '1' exactly when the calendar   *)
(* age at the evaluation date (year difference, minus one while this       *)
(* year's birthday is still ahead) is at least minimumAge: born exactly    *)
(* minimumAge years before gives '1', born one day later gives '0'.        *)
CalendarAge(dateOfBirth, date) ==
    IF date[2] < dateOfBirth[2]
       \/ (date[2] = dateOfBirth[2] /\ date[3] < dateOfBirth[3])
    THEN date[1] - dateOfBirth[1] - 1
    ELSE date[1] - dateOfBirth[1]

C17_Claim ==
    call.fn = "generateAgeVerificationProof" =>
        LET evaluationDate == LocalDate(call.today, call.today.tz)
        IN  call.result.publicSignals =
                <<Bit(CalendarAge(call.dateOfBirth, evaluationDate) >= call.minimumAge),
                  ToString(call.minimumAge), ToString(evaluationDate[1])>>

(* C18: generateDocumentValidityProof yields publicSignals = [isValid,     *)
(* hasMinimumValidity]: isValid is '1' exactly when the expiry instant is  *)
(* after now, hasMinimumValidity exactly when the expiry date is more than *)
(* 30 days after today (31 days after: '1'; 29 days after: '0').           *)
C18_Claim ==
    call.fn = "generateDocumentValidityProof" =>
        LET evaluationDate == LocalDate(call.today, call.today.tz)
            daysUntilExpiry == DayNumber(call.expiryDate) - DayNumber(evaluationDate)
        IN  call.result.publicSignals =
                <<Bit(Later(GetTime(ParseDate(call.expiryDate)), GetTime(call.today))),
                  Bit(daysUntilExpiry > 30)>>

(* C19: generateFullKYCProof yields exactly the five public signals        *)
(* [isFullyValid, isAgeValid, isDocValid, isNationalityValid, minimumAge]; *)
(* isFullyValid is '1' if and only if the other three flags are all '1';   *)
(* isAgeValid and isDocValid are the first signals of the age and document *)
(* sub-proofs.                                                             *)
Flags == {"0", "1"}

MinimumAgeOf(options) ==
    IF "minimumAge" \in DOMAIN options THEN options.minimumAge ELSE 18

C19_Theorem ==
    call.fn = "generateFullKYCProof" =>
        LET ps == call.result.publicSignals
            minimumAge == MinimumAgeOf(call.options)
            ageProof == generateAgeVerificationProof(call.kycData.dateOfBirth,
                            minimumAge, call.userAddress, call.today)
            docProof == generateDocumentValidityProof(call.kycData.expiryDate,
                            call.kycData.documentType, call.userAddress, call.today)
        IN  /\ Len(ps) = 5
            /\ \A i \in 1..4 : ps[i] \in Flags
            /\ ps[1] = "1" <=> (ps[2] = "1" /\ ps[3] = "1" /\ ps[4] = "1")
            /\ ps[2] = ageProof.publicSignals[1]
            /\ ps[3] = docProof.publicSignals[1]
            /\ ps[5] = ToString(minimumAge)

C19_Witness ==
    /\ call.fn = "generateFullKYCProof"
    /\ call.result.publicSignals = <<"0", "1", "0", "1", "18">>

(* C20 as stated: the nationality signal of generateFullKYCProof is the    *)
(* membership of the record's nationality in allowedNationalities whenever *)
(* a list is provided, an empty list included, and '1' when none is        *)
(* provided; a nationality outside the list gives isFullyValid = '0' with  *)
(* isAgeValid and isDocValid as for a nationality inside the list.         *)
OutsideListKeepsOtherFlags ==
    ( /\ "allowedNationalities" \in DOMAIN call.options
      /\ call.options.allowedNationalities # {}
      /\ call.kycData.nationality \notin call.options.allowedNationalities )
    => /\ call.result.publicSignals[1] = "0"
       /\ \A n \in call.options.allowedNationalities :
              LET inside == generateFullKYCProof(
                                [call.kycData EXCEPT !.nationality = n],
                                call.userAddress, call.options, call.today)
              IN  /\ inside.publicSignals[4] = "1"
                  /\ inside.publicSignals[2] = call.result.publicSignals[2]
                  /\ inside.publicSignals[3] = call.result.publicSignals[3]

C20_Claim ==
    call.fn = "generateFullKYCProof" =>
        /\ call.result.publicSignals[4] =
               Bit(IF "allowedNationalities" \in DOMAIN call.options
                   THEN call.kycData.nationality \in call.options.allowedNationalities
                   ELSE TRUE)
        /\ OutsideListKeepsOtherFlags

(* C20 amended: the nationality signal is the membership of the record's   *)
(* nationality in allowedNationalities whenever a non-empty list is        *)
(* provided, and '1' when no list or an empty list is provided; the rest   *)
(* as stated.                                                              *)
C20_Theorem ==
    call.fn = "generateFullKYCProof" =>
        /\ call.result.publicSignals[4] =
               Bit(IF "allowedNationalities" \in DOMAIN call.options
                      /\ call.options.allowedNationalities # {}
                   THEN call.kycData.nationality \in call.options.allowedNationalities
                   ELSE TRUE)
        /\ OutsideListKeepsOtherFlags

C20_Witness ==
    /\ call.fn = "generateFullKYCProof"
    /\ call.options = [minimumAge |-> 18, allowedNationalities |-> {"Canada", "USA"}]
    /\ call.kycData.nationality = "Germany"
    /\ call.result.publicSignals = <<"0", "1", "1", "0", "18">>

(* C21: the nullifierHash of a full-KYC proof depends on the document      *)
(* type, the document number and the subject address only: another         *)
(* generateFullKYCProof call for the same document and subject returns the *)
(* same nullifierHash, also at another instant, where the proof digest     *)
(* differs; a call for another subject or another document number returns  *)
(* a different one.                                                        *)
C21_Theorem ==
    call.fn = "generateFullKYCProof" =>
        \A k \in KYCBind, u \in Subjects, o \in BindOptions, t \in BindTodays :
            LET other == generateFullKYCProof(k, u, o, t)
                sameDocument == /\ k.documentType = call.kycData.documentType
                                /\ k.documentNumber = call.kycData.documentNumber
            IN  /\ (sameDocument /\ u = call.userAddress)
                       => other.nullifierHash = call.result.nullifierHash
                /\ ( \/ u # call.userAddress
                     \/ k.documentNumber # call.kycData.documentNumber )
                       => other.nullifierHash # call.result.nullifierHash
                /\ ( /\ k = call.kycData /\ u = call.userAddress /\ o = call.options
                     /\ GetTime(t) # GetTime(call.today) )
                       => other.proof # call.result.proof

C21_Witness ==
    /\ call.fn = "generateFullKYCProof"
    /\ call.today.ms = NoonMs
    /\ LET earlier == generateFullKYCProof(call.kycData, call.userAddress,
                                           call.options, [call.today EXCEPT !.ms = 0])
       IN  /\ earlier.proof # call.result.proof
           /\ earlier.nullifierHash = call.result.nullifierHash

(* C22: for one identity record and one subject the age proof, the         *)
(* document-validity proof and the full-KYC proof carry the same           *)
(* nullifierHash, and none of the three varies with the evaluation         *)
(* instant (hence with the outcome of the proof).                          *)
C22_Claim ==
    call.fn = "generateFullKYCProof" =>
        LET minimumAge == MinimumAgeOf(call.options)
            ageProof(t) == generateAgeVerificationProof(call.kycData.dateOfBirth,
                               minimumAge, call.userAddress, t)
            docProof(t) == generateDocumentValidityProof(call.kycData.expiryDate,
                               call.kycData.documentType, call.userAddress, t)
            fullProof(t) == generateFullKYCProof(call.kycData, call.userAddress,
                                                 call.options, t)
        IN  /\ ageProof(call.today).nullifierHash = call.result.nullifierHash
            /\ docProof(call.today).nullifierHash = call.result.nullifierHash
            /\ \A t \in LibTodays :
                   /\ ageProof(t).nullifierHash = ageProof(call.today).nullifierHash
                   /\ docProof(t).nullifierHash = docProof(call.today).nullifierHash
                   /\ fullProof(t).nullifierHash = call.result.nullifierHash

(* C23: createCommitment is the digest of the JSON text of documentType,   *)
(* documentNumber, dateOfBirth and nationality in this order: two records  *)
(* that agree on these four fields have the same commitment whatever their *)
(* fullName, their expiryDate and the order in which their properties were *)
(* assigned; createCommitment, hashData and generateNullifierHash return   *)
(* the same output when called again with the same arguments.              *)
CommittedFields == <<"documentType", "documentNumber", "dateOfBirth", "nationality">>

C23_Theorem ==
    /\ call.fn = "createCommitment" =>
           LET kycData == ObjectOf(call.entries)
           IN  /\ call.result =
                      hashData(JSONText([i \in 1..Len(CommittedFields) |->
                          <<CommittedFields[i], kycData[CommittedFields[i]]>>]))
               /\ createCommitment(kycData) = call.result
               /\ \A k \in KYCRecords, order \in InsertionOrders :
                      (\A i \in 1..Len(CommittedFields) :
                          k[CommittedFields[i]] = kycData[CommittedFields[i]])
                      => createCommitment(ObjectOf(EntriesOf(k, order))) = call.result
    /\ call.fn = "hashData" => hashData(call.data) = call.result
    /\ call.fn = "generateNullifierHash" =>
           generateNullifierHash(call.documentHash, call.userAddress) = call.result

C23_Witness ==
    /\ call.fn = "createCommitment"
    /\ call.entries[1][1] = "expiryDate"
    /\ LET kycData == ObjectOf(call.entries)
           other == [kycData EXCEPT !.fullName = "Grace Hopper",
                                    !.expiryDate = <<2024, 5, 31>>]
       IN  /\ other # kycData
           /\ call.result =
                  createCommitment(ObjectOf(EntriesOf(other, <<"documentType",
                      "documentNumber", "fullName", "dateOfBirth", "nationality",
                      "expiryDate">>)))

(* C24: verifyZKProof does not throw on a proof whose digest is empty or   *)
(* not 64 characters wide or whose publicSignals is empty: it returns      *)
(* isValid = false and publicOutputs = [], with the nullifierHash of the   *)
(* proof; on a proof with a 64 character digest and at least one public    *)
(* signal it returns isValid = (publicSignals[0] = '1') and publicOutputs  *)
(* = publicSignals.                                                        *)
C24_Malformed(proof) ==
    \/ proof.proof.width = 0
    \/ proof.proof.width # 64
    \/ ("publicSignals" \in DOMAIN proof /\ proof.publicSignals = <<>>)

C24_WellFormed(proof) ==
    /\ proof.proof.width = 64
    /\ "publicSignals" \in DOMAIN proof
    /\ proof.publicSignals # <<>>

C24_Theorem ==
    call.fn = "verifyZKProof" =>
        /\ C24_Malformed(call.proof) =>
               /\ ~call.result.threw
               /\ call.result.value = [isValid |-> FALSE,
                                       nullifierHash |-> call.proof.nullifierHash,
                                       publicOutputs |-> <<>>]
        /\ C24_WellFormed(call.proof) =>
               /\ ~call.result.threw
               /\ call.result.value = [isValid |-> call.proof.publicSignals[1] = "1",
                                       nullifierHash |-> call.proof.nullifierHash,
                                       publicOutputs |-> call.proof.publicSignals]

C24_Witness ==
    /\ call.fn = "verifyZKProof"
    /\ call.proof.proof.width = 63
    /\ call.proof.publicSignals[1] = "1"
    /\ ~call.result.threw
    /\ ~call.result.value.isValid

(* C25: every invocation of the worker's main ends having written exactly  *)
(* one completion descriptor (computed.json) that holds a                  *)
(* 'deterministic-output-path': on full success, with items in error, when *)
(* reading an input file or writing the report throws, and when the        *)
(* start-up (output directory, logger set-up) fails; on the error paths    *)
(* the descriptor also holds an error message.                             *)
Descriptors(result) ==
    SelectSeq(result.writes, LAMBDA w : w.path[Len(w.path)] = "/computed.json")

C25_Claim ==
    call.fn = "main" =>
        LET written == Descriptors(call.result)
            failed == \/ call.env.IEXEC_OUT = NULL
                      \/ ~call.env.reportWritable
                      \/ \E i \in 1..Len(call.env.files) : ~call.env.files[i].readable
        IN  /\ Len(written) = 1
            /\ "deterministic-output-path" \in DOMAIN written[1].content
            /\ failed => "error-message" \in DOMAIN written[1].content

(* C26: in a bulk batch of n items an error on one item does not stop the  *)
(* batch: verificationResults ends with exactly one entry per item, in     *)
(* input order, and a report that is written has totalDocuments = n,       *)
(* whichever items fail.                                                   *)
EntryIsOf(entry, i, item) ==
    IF item.read = "throws"
    THEN /\ "documentIndex" \in DOMAIN entry
         /\ entry.documentIndex = i /\ entry.error = item.message
    ELSE /\ "userId" \in DOMAIN entry
         /\ entry.userId = item.userId
         /\ entry.documentHash = hashData(item.documentData)

Reports(result) ==
    SelectSeq(result.writes,
              LAMBDA w : w.path[Len(w.path)] = "/kyc-verification-result.json")

C26_Theorem ==
    (call.fn = "main" /\ call.env.IEXEC_OUT # NULL) =>
        LET n == Len(call.env.items)
            results == call.result.verificationResults
        IN  /\ Len(results) = n
            /\ \A i \in 1..n : EntryIsOf(results[i], i, call.env.items[i])
            /\ \A j \in 1..Len(Reports(call.result)) :
                   LET kycReport == Reports(call.result)[j].content.json
                   IN  /\ kycReport.totalDocuments = n
                       /\ kycReport.verificationResults = results

C26_Witness ==
    /\ call.fn = "main"
    /\ Len(call.env.items) = 2
    /\ call.env.items[1].read = "throws"
    /\ call.env.items[2].read = "ok"
    /\ Len(Reports(call.result)) = 1
    /\ Reports(call.result)[1].content.json.totalDocuments = 2
    /\ Reports(call.result)[1].content.json.verifiedDocuments = 1

(* C27: the report has overallStatus ALL_VERIFIED exactly when every       *)
(* processed item is VERIFIED and PARTIAL_VERIFICATION as soon as one item *)
(* is FAILED, ERROR or threw; ALL_VERIFIED is never reported when no       *)
(* document was verified.                                                  *)
C27_Claim ==
    call.fn = "main" =>
        \A j \in 1..Len(Reports(call.result)) :
            LET kycReport == Reports(call.result)[j].content.json
                results == kycReport.verificationResults
                allVerified == \A i \in 1..Len(results) :
                                   StatusIs(results[i], "VERIFIED")
            IN  /\ kycReport.overallStatus =
                       IF allVerified THEN "ALL_VERIFIED" ELSE "PARTIAL_VERIFICATION"
                /\ kycReport.overallStatus = "ALL_VERIFIED"
                       => kycReport.verifiedDocuments > 0

(* C28: two invocations of the worker on the same protected documents,     *)
(* input files and secrets write the same report, whenever they run.       *)
C28_Claim ==
    call.fn = "main" =>
        \A env \in WorkerEnvs :
            ( /\ env.IEXEC_OUT = call.env.IEXEC_OUT
              /\ env.items = call.env.items
              /\ env.files = call.env.files
              /\ env.secrets = call.env.secrets
              /\ env.reportWritable = call.env.reportWritable )
            => Reports(main(env)) = Reports(call.result)

SameSubject(u) == toLowerCase(u) = toLowerCase(call.userAddress)

C30_Claim ==
    /\ call.fn = "fetchVerificationStatus" =>
           \A u \in Subjects : SameSubject(u) =>
               fetchVerificationStatus(u, call.isTestnet, call.response,
                                       LogNow).request = call.result.request
    /\ call.fn = "grantVerificationAccess" =>
           \A u \in Subjects : SameSubject(u) =>
               grantVerificationAccess(call.protectedDataAddress, u, call.outcome,
                                       LogNow).core = call.result.core
    /\ call.fn = "generateFullKYCProof" =>
           \A u \in Subjects : SameSubject(u) =>
               generateFullKYCProof(call.kycData, u, call.options,
                                    call.today).nullifierHash
                   = call.result.nullifierHash

\* the runs a startVerification call of this step has started
Invoked ==
    {q \in BagToSet(runs') :
        attempts' = attempts + 1 /\ CopiesIn(q, runs') > CopiesIn(q, runs)}

\* failures to reach the confidential backend, as the catch block records them
BackendFailures ==
    {"chain", "provider", "init", "validation", "protect", "grantDenied",
     "execute", "parse"}

(* C31: the strategy of the verifying state is fixed by the presence of a  *)
(* provider: a run calls simulateVerification if and only if the page      *)
(* supplied no provider when startVerification was invoked; with a         *)
(* provider, a failure to reach the backend (chain mismatch, provider      *)
(* test, DataProtector initialization, protect, grant, execute) ends in    *)
(* status failed and simulateVerification is never called by that run.     *)
C31_StrategyByProvider ==
    /\ \A q \in Invoked :
           (q.provider = NULL) <=> (wallet.walletState.provider = NULL)
    /\ \A r \in InFlight :
           (r.pc = "computing" /\ Stepped(r) /\ state'.status = "verifying") =>
               \E q \in BagToSet(runs') :
                   /\ runs' = With(Without(r), q)
                   /\ (q.pc = "simulate") <=> (r.provider = NULL)
                   /\ ("simulateVerification" \in Called(q.calls))
                          <=> (r.provider = NULL)

C31_NoFallback ==
    \A r \in InFlight :
        (Stepped(r) /\ runs' = Without(r) /\ last'.kind = "failed"
            /\ last'.cause \in BackendFailures) =>
            /\ r.provider # NULL
            /\ state'.status = "failed"
            /\ state'.error # NULL
            /\ "simulateVerification" \notin Called(last'.calls)

C31_Claim == [][C31_StrategyByProvider /\ C31_NoFallback]_vars

(* C36: the network check uses the wallet's chain ID and provider as they  *)
(* are when startVerification is invoked: whatever connect, chainChanged   *)
(* and accountsChanged events came before, the run checks the chain ID the *)
(* wallet hook holds at that moment, so a run against the real backend     *)
(* starts only from a wallet on 421614 and a wallet on 421614 is not       *)
(* rejected for a chain it was on earlier.                                 *)
C36_Claim ==
    [][\A q \in Invoked :
           /\ q.chainId = wallet.walletState.chainId
           /\ q.provider = wallet.walletState.provider]_vars

\* the conditions the claims put on the arguments of a submitProof call
EnclaveSigned(args) ==
    recover(MessageHash(args[1], args[2], args[3], args[5]), args[4]) = trustedEnclave
Acceptable(args) ==
    EnclaveSigned(args) /\ args[2] = TRUE /\ args[5] > blockTimestamp

(* C32: the contract records a verification for a subject only when        *)
(* submitProof is called with a signature that recovers to the trusted     *)
(* enclave over (user, result, proofHash, expiryTimestamp), with result =  *)
(* true and expiryTimestamp > block.timestamp; every other submitProof     *)
(* call reverts and leaves the stored verification of every subject        *)
(* unchanged.  Hence a subject for whom isVerified is true has a record    *)
(* that such a call wrote earlier.                                         *)
C32_OnlyAcceptedProofs ==
    /\ verifications' # verifications =>
           \/ /\ call'.fn = "revokeVerification" /\ ~call'.reverted
              /\ verifications' =
                     [verifications EXCEPT ![call'.user].isVerified = FALSE]
           \/ /\ call'.fn = "submitProof" /\ ~call'.reverted
              /\ Acceptable(call'.args)
              /\ verifications' =
                     [verifications EXCEPT ![call'.args[1]] =
                         [isVerified |-> TRUE,
                          verificationTimestamp |-> blockTimestamp,
                          proofHash |-> call'.args[3],
                          expiryTimestamp |-> call'.args[5]]]
    /\ (call'.fn = "submitProof" /\ call' # call) =>
           /\ call'.reverted <=> ~Acceptable(call'.args)
           /\ call'.reverted => verifications' = verifications

C32_WrittenEarlier ==
    \A user \in LedgerUsers :
        LET v == verifications[user]
        IN  /\ isVerified(user) =>
                   /\ v.verificationTimestamp \in GenesisTime..blockTimestamp
                   /\ v.proofHash \in ProofHashes
                   /\ v.expiryTimestamp > blockTimestamp
            /\ v.verificationTimestamp = 0 => v = NoVerification

C32_Theorem == [](C32_WrittenEarlier) /\ [][C32_OnlyAcceptedProofs]_vars

C32_Witness ==
    /\ call.fn = "submitProof" /\ call.reverted
    /\ call.args[2] = TRUE /\ call.args[5] > blockTimestamp
    /\ call.args[4] =
           Sign("0xmallory",
                MessageHash(call.args[1], TRUE, call.args[3], call.args[5]))
    /\ ~isVerified(call.args[1])
    /\ \E other \in LedgerUsers : isVerified(other)

(* C33: after the owner has revoked a subject's verification, isVerified   *)
(* of that subject stays false until the enclave signs a new proof:        *)
(* submitting again, by any caller, the arguments of the proof that was    *)
(* accepted before the revocation does not restore the verification.       *)
C33_Claim ==
    [][\A user \in LedgerUsers :
          LET v == verifications[user]
              revoked == ~v.isVerified /\ v.verificationTimestamp # 0
              replayed ==
                  <<user, TRUE, v.proofHash,
                    Sign("0xenclave",
                         MessageHash(user, TRUE, v.proofHash, v.expiryTimestamp)),
                    v.expiryTimestamp>>
          IN  (revoked /\ call'.fn = "submitProof" /\ call'.args = replayed) =>
                  ~verifications'[user].isVerified]_vars

\* what a completed session holds according to the claim
CompleteArtifacts(s) ==
    /\ s.currentStep = 6
    /\ s.error = NULL
    /\ s.protectedData # Null /\ s.zkProof # Null
    /\ s.verificationResult # Null /\ s.transactionHash # NULL
    /\ IsValidOf(s.verificationResult)
    /\ s.zkProof.publicSignals[1] = "1"

(* C34: in every reachable state with status = completed, after any        *)
(* sequence of startVerification and reset calls (resets during a          *)
(* suspended run included), currentStep is 6, error is null, and           *)
(* protectedData, zkProof, verificationResult and transactionHash are all  *)
(* set, with verificationResult.isValid = true and                         *)
(* zkProof.publicSignals[0] = '1'.                                         *)
C34_Claim == state.status = "completed" => CompleteArtifacts(state)

(* C35: in every reachable state of the session, error is non-null if and  *)
(* only if status = failed; a session in encrypting, computing, verifying, *)
(* submitting or completed carries neither the error nor the artifacts of  *)
(* an earlier failed attempt.                                              *)
C35_Claim == (state.error # NULL) <=> (state.status = "failed")

\* an item as the claim describes it: non-empty payload, non-empty subject
\* id, 64-character digest, valid format
WellFormedItem(documentInfo) ==
    /\ documentInfo.documentData.length > 0
    /\ documentInfo.userId # ""
    /\ documentInfo.documentHash.width = 64
    /\ documentInfo.documentType = "passport" =>
           validatePassportFormat(documentInfo.documentData)

(* C37: every document type of the form's enum (passport, national_id,     *)
(* driving_license, aadhaar, pan_card) is recognized by the worker: a      *)
(* well-formed item of any of the five types gets the outcome VERIFIED,    *)
(* not FAILED.                                                             *)
C37_Claim ==
    (/\ call.fn = "performKYCVerification"
     /\ call.documentInfo.documentType \in DocumentType
     /\ WellFormedItem(call.documentInfo)) =>
        call.result.status = "VERIFIED"

\* the execution succeeds (the report file is written) and the worker
\* reports every item of a non-empty batch VERIFIED
AllVerified(env) ==
    LET results == main(env).verificationResults
    IN  /\ TaskResultOf(env).settled = "resolved"
        /\ Len(results) > 0
        /\ \A i \in 1..Len(results) : StatusIs(results[i], "VERIFIED")

(* C38: the result the worker emits for a successful execution is an       *)
(* attestation the client accepts: when the worker reports every item      *)
(* VERIFIED, the result executeVerificationTask parses has isValid = true  *)
(* and carries proofHash, enclaveSignature and attributes, so that the     *)
(* hook's test of isValid lets the run go on to submitting.                *)
C38_Claim ==
    (/\ call.fn = "executeVerificationTask"
     /\ AllVerified(call.env)) =>
        /\ ~call.result.threw
        /\ LET verificationResult == call.result.value.result
           IN  /\ IsValidOf(verificationResult)
               /\ {"proofHash", "enclaveSignature", "attributes"}
                      \subseteq DOMAIN verificationResult

\* the 'at least 18' decision of each adult check on a date of birth, for
\* a document that has not expired
AdultChecks ==
    {"verify", "generateAgeProof", "validateForm", "isAdult",
     "generateAgeVerificationProof"}

AtLeast18(fn, dateOfBirth, today) ==
    CASE fn = "verify" ->
             verify([KYCGood EXCEPT !.dateOfBirth = dateOfBirth], today)
      [] fn = "generateAgeProof" ->
             generateAgeProof(dateOfBirth, 18, today).publicSignals[1] = "1"
      [] fn = "validateForm" ->
             validateFormDateOfBirth(dateOfBirth, today) = NULL
      [] fn = "isAdult" -> isAdult(dateOfBirth, 18, today)
      [] fn = "generateAgeVerificationProof" ->
             generateAgeVerificationProof(dateOfBirth, 18, "0xabc",
                                          today).publicSignals[1] = "1"

(* C39: all adult checks of the repository agree with the calendar-aware   *)
(* rule (age = year difference, minus one when this year's birthday has    *)
(* not been reached): on every date of birth and evaluation date, the      *)
(* enclave's verify function, generateAgeProof, the form's validation,     *)
(* isAdult and generateAgeVerificationProof give the same 'at least 18'    *)
(* decision, and none of them accepts somebody who is still 17.            *)
C39_Claim ==
    (call.fn \in AdultChecks /\ call.dateOfBirth # <<>>) =>
        LET adult == CalendarAge(call.dateOfBirth,
                                 LocalDate(call.today, call.today.tz)) >= 18
        IN  \A fn \in AdultChecks :
                AtLeast18(fn, call.dateOfBirth, call.today) = adult

====
